---------------------------- MODULE Spec2Model ----------------------------
(***************************************************************************)
(* A model of the mitmproxy logging addons of Pondsiders/mitm:             *)
(*   addons/scribe_logger.py   (relational sink, noise filter, SSE text)   *)
(*   addons/langfuse_logger.py (tracing sink, SSE text + usage)            *)
(*                                                                         *)
(* Python strings that the code scans character by character are modelled  *)
(* as sequences of one-character strings.  Python's None is the JSON null.  *)
(* Positions are 0-based as in Python; -1 is "not found".                   *)
(***************************************************************************)
EXTENDS Integers, Sequences, FiniteSets, TLC

VARIABLES
    nf_text,        \* NoiseFilter: the text _strip_noise_tags is next applied to
    nf_hist,        \* NoiseFilter: the input followed by the result of each application
    nf_steps,       \* NoiseFilter: `result` before the loop and after each tag, last application
    sse_body,       \* SSE: the response body, a sequence of lines
    sse_pos,        \* SSE: how many lines the loop of parse_sse_stream has consumed
    sse_state,      \* SSE: the locals of parse_sse_stream (text_parts, usage, raised)
    sse_result,     \* SSE: what parse_sse_stream returned, NotYet before
    scribe_result,  \* SSE: what _parse_sse_response returned on the same body, NotYet before
    ex_content,     \* Extract: the content value the extractors are applied to
    ex_scribe,      \* Extract: what ScribeLogger._extract_text_from_content did with it
    ex_langfuse,    \* Extract: what the text extraction of LangfuseLogger.response did with it
    ex_done,        \* Extract: whether the extractors have been applied
    flow_request,   \* proxy: the request of each flow the proxy has seen (flow.request)
    _pending_requests, \* scribe_logger._pending_requests: flow id -> request context
    conn,           \* ScribeLogger.conn: "none" (None), "open", "closed", or "broken":
                    \* the server has dropped the session, conn.closed is still False
    conversations,  \* table scribe.conversations: the uuid of each row, row n has id n
    messages,       \* table scribe.messages, in insertion order
    uuid_count,     \* how many uuid4() values were taken
    pending_flows,  \* LangfuseLogger.pending_flows: flow id -> request body
    lf_records,     \* the generations the Langfuse client received, in order
    db_up,          \* whether PostgreSQL accepts connections and statements
    lf_up,          \* whether the Langfuse client accepts generations
    redis_up,       \* whether Redis accepts XADD
    redis_stream,   \* the Redis stream mitm:api_traffic, entry n has id n
    flow_metadata,  \* flow.metadata["buffer_entry_id"] of each flow, 0 when not set
    quota_csv,      \* the rows QuotaLogger appended to quota.csv, in order
    propagated,     \* the addons whose hook let an exception escape in the last event
    calls,          \* how many events have happened
    last            \* the event that happened last, and whether each addon held an entry for its flow

nf_vars == <<nf_text, nf_hist, nf_steps>>

sse_vars == <<sse_body, sse_pos, sse_state, sse_result, scribe_result>>

ex_vars == <<ex_content, ex_scribe, ex_langfuse, ex_done>>

scribe_vars == <<_pending_requests, conn, conversations, messages, uuid_count>>

langfuse_vars == <<pending_flows, lf_records>>

buffer_vars == <<redis_up, redis_stream, flow_metadata>>

hook_vars ==
    <<flow_request, scribe_vars, langfuse_vars, buffer_vars, db_up, lf_up, quota_csv, propagated,
      calls, last>>

vars == <<nf_vars, sse_vars, ex_vars, hook_vars>>

----------------------------------------------------------------------------
(* Bounds of the model.                                                     *)

\* the longest input text of the noise filter, counted in pieces of InputPieces
MaxPieces == 5

\* the longest SSE body, counted in lines
MaxLines == 3

\* how many request and response events the proxy dispatches
MaxCalls == 4

\* how many flows the proxy handles
NumFlows == 2

\* the longest content array given to the extractors
MaxBlocks == 3

----------------------------------------------------------------------------
(* Python str helpers.                                                      *)

Max(a, b) == IF a >= b THEN a ELSE b

Min(a, b) == IF a <= b THEN a ELSE b

\* s[lo:hi] for 0 <= lo, 0 <= hi (Python clamps both to len(s))
Slice(s, lo, hi) == SubSeq(s, lo + 1, Min(hi, Len(s)))

\* s[lo:]
SliceFrom(s, lo) == SubSeq(s, lo + 1, Len(s))

\* s.startswith(sub, at): sub occurs in s at 0-based position at
OccursAt(s, sub, at) ==
    /\ at >= 0
    /\ at + Len(sub) <= Len(s)
    /\ SubSeq(s, at + 1, at + Len(sub)) = sub

\* s.find(sub, start): the lowest position >= start where sub occurs, else -1
findFrom(s, sub, start) ==
    LET hits == {i \in start..(Len(s) - Len(sub)) : OccursAt(s, sub, i)}
    IN  IF hits = {} THEN -1 ELSE CHOOSE i \in hits : \A k \in hits : i <= k

\* s.find(sub)
find(s, sub) == findFrom(s, sub, 0)

\* s.rfind(sub): the highest position where sub occurs, else -1
rfind(s, sub) ==
    LET hits == {i \in 0..(Len(s) - Len(sub)) : OccursAt(s, sub, i)}
    IN  IF hits = {} THEN -1 ELSE CHOOSE i \in hits : \A k \in hits : i >= k

\* the characters str.strip() removes, of those the model's texts are made of
IsSpace(c) == c \in {" ", "\n"}

\* s.strip()
strip(s) ==
    LET keep == {i \in 1..Len(s) : ~IsSpace(s[i])}
    IN  IF keep = {} THEN <<>>
        ELSE SubSeq(s, CHOOSE i \in keep : \A k \in keep : i <= k,
                       CHOOSE i \in keep : \A k \in keep : i >= k)

----------------------------------------------------------------------------
(* ScribeLogger._strip_noise_tags                                           *)

\* The configured tags, in declared order.  The code lists seven names; the
\* model keeps two, with one-character names: "s" for system-reminder and
\* "i" for ide_opened_file.
NOISE_TAGS == << <<"s">>, <<"i">> >>

\* f'<{tag}>'
open_tag(tag) == <<"<">> \o tag \o <<">">>

\* f'</{tag}>'
close_tag(tag) == <<"<", "/">> \o tag \o <<">">>

\* re.sub(rf'<{tag}>.*?</{tag}>', '', s, flags=re.DOTALL): every leftmost
\* non-overlapping span from an opening marker to the nearest closing marker
\* after it is deleted.
RECURSIVE re_sub_block(_, _)
re_sub_block(tag, s) ==
    LET i == find(s, open_tag(tag))
        j == IF i = -1 THEN -1 ELSE findFrom(s, close_tag(tag), i + Len(open_tag(tag)))
    IN  IF i = -1 \/ j = -1 THEN s
        ELSE Slice(s, 0, i) \o re_sub_block(tag, SliceFrom(s, j + Len(close_tag(tag))))

\* the length of the run of newlines s starts with
RECURSIVE NewlineRun(_)
NewlineRun(s) == IF s # <<>> /\ Head(s) = "\n" THEN 1 + NewlineRun(Tail(s)) ELSE 0

\* re.sub(r'\n{3,}', '\n\n', s)
RECURSIVE re_sub_newlines(_)
re_sub_newlines(s) ==
    IF s = <<>> THEN <<>>
    ELSE LET r == NewlineRun(s)
         IN  IF r >= 3 THEN <<"\n", "\n">> \o re_sub_newlines(SliceFrom(s, r))
             ELSE <<Head(s)>> \o re_sub_newlines(Tail(s))

\* the f"{before}\n\n{after}" / before or after or "" combination
Combine(before, after) ==
    IF before # <<>> /\ after # <<>> THEN before \o <<"\n", "\n">> \o after
    ELSE IF before # <<>> THEN before
    ELSE after

\* StripTag without the `first_open == -1` test: a missing opening marker is
\* taken to be at the start of the text
StripTag_NoOpenTest(result, tag) ==
    LET first_open == Max(find(result, open_tag(tag)), 0)
        last_close == rfind(result, close_tag(tag))
        end_of_last_close == last_close + Len(close_tag(tag))
        before == strip(Slice(result, 0, first_open))
        after == re_sub_block(tag, strip(SliceFrom(result, end_of_last_close)))
    IN  IF last_close = -1 THEN result
        ELSE Combine(before, after)

\* StripTag without the `last_close == -1` test: end_of_last_close is then
\* -1 + len(close_tag)
StripTag_NoCloseTest(result, tag) ==
    LET first_open == find(result, open_tag(tag))
        last_close == rfind(result, close_tag(tag))
        end_of_last_close == last_close + Len(close_tag(tag))
        before == strip(Slice(result, 0, first_open))
        after == re_sub_block(tag, strip(SliceFrom(result, end_of_last_close)))
    IN  IF first_open = -1 THEN result
        ELSE Combine(before, after)

\* one iteration of the loop over NOISE_TAGS: `result` after the iteration
StripTag(result, tag) ==
    LET first_open == find(result, open_tag(tag))
        last_close == rfind(result, close_tag(tag))
        end_of_last_close == last_close + Len(close_tag(tag))
        before == strip(Slice(result, 0, first_open))
        after == re_sub_block(tag, strip(SliceFrom(result, end_of_last_close)))
    IN  IF first_open = -1 THEN result
        ELSE IF last_close = -1 THEN result
        ELSE Combine(before, after)

\* `result` before the loop and after each of the first n iterations
RECURSIVE StripSteps(_, _)
StripSteps(text, n) ==
    IF n = 0 THEN <<text>>
    ELSE LET prev == StripSteps(text, n - 1)
         IN  Append(prev, StripTag(prev[n], NOISE_TAGS[n]))

\* _strip_noise_tags(text)
_strip_noise_tags(text) ==
    LET steps == StripSteps(text, Len(NOISE_TAGS))
    IN  strip(re_sub_newlines(steps[Len(steps)]))

----------------------------------------------------------------------------
(* JSON values, as json.loads returns them.                                 *)

Null == [j |-> "null"]

Num(n) == [j |-> "int", v |-> n]

\* a str the code only compares (a type name)
Str(a) == [j |-> "str", v |-> a]

\* a str the code scans or concatenates, as a sequence of characters
Text(cs) == [j |-> "text", v |-> cs]

Bool(b) == [j |-> "bool", v |-> b]

List(xs) == [j |-> "list", v |-> xs]

\* a dict: v maps each key that is present to its value
Obj(f) == [j |-> "obj", v |-> f]

EmptyObj == Obj(<<>>)

IsDict(x) == x.j = "obj"

\* x == a, for a type name a
StrEq(x, a) == x.j = "str" /\ x.v = a

\* d.get(key, default), for a dict d
Get(d, key, default) == IF key \in DOMAIN d.v THEN d.v[key] ELSE default

\* d[key] = value, for a dict d
SetItem(d, key, value) ==
    Obj([k \in DOMAIN d.v \cup {key} |-> IF k = key THEN value ELSE d.v[k]])

\* bool(x)
Truthy(x) ==
    CASE x.j = "null" -> FALSE
      [] x.j = "int" -> x.v # 0
      [] x.j = "str" -> x.v # ""
      [] x.j = "text" -> x.v # <<>>
      [] x.j = "bool" -> x.v
      [] x.j = "list" -> x.v # <<>>
      [] x.j = "obj" -> DOMAIN x.v # {}

----------------------------------------------------------------------------
(* SSE bodies.  A line either starts with "data: " or does not; the rest of *)
(* a data line is the [DONE] sentinel, text json.loads rejects, or JSON.    *)

\* a line that does not start with "data: " (an "event:" line, a blank line)
OtherLine == [kind |-> "other"]

\* a line that does not start with "data: " and holds bytes that are not UTF-8
UndecodableLine == [kind |-> "undecodable"]

\* data: [DONE]
DoneLine == [kind |-> "done"]

\* a data line whose payload json.loads rejects (JSONDecodeError)
BadJsonLine == [kind |-> "badjson"]

\* a data line whose payload is the JSON value val
DataLine(val) == [kind |-> "json", val |-> val]

TextDelta(cs) ==
    DataLine(Obj([type |-> Str("content_block_delta"),
                  delta |-> Obj([type |-> Str("text_delta"), text |-> Text(cs)])]))

MessageStart(usage) ==
    DataLine(Obj([type |-> Str("message_start"), message |-> Obj([usage |-> usage])]))

MessageDelta(usage) ==
    DataLine(Obj([type |-> Str("message_delta"), usage |-> usage]))

UsageIn10 == Obj([input_tokens |-> Num(10)])

UsageOut5 == Obj([output_tokens |-> Num(5)])

\* a usage object without output_tokens
UsageIn3 == Obj([input_tokens |-> Num(3)])

UsageCache == Obj([input_tokens |-> Num(3), cache_read_input_tokens |-> Num(7)])

\* body.decode("utf-8", errors="replace"): bytes that are not UTF-8 become
\* U+FFFD, the line still does not start with "data: "
DecodeReplace(body) ==
    [n \in 1..Len(body) |-> IF body[n].kind = "undecodable" THEN OtherLine ELSE body[n]]

\* body.decode("utf-8") raises
DecodeFails(body) == \E n \in 1..Len(body) : body[n].kind = "undecodable"

----------------------------------------------------------------------------
(* langfuse_logger.parse_sse_stream                                         *)

\* the locals before the loop
SseStart == [text_parts |-> <<>>, usage |-> Null, raised |-> FALSE]

\* an exception other than JSONDecodeError leaves the function
SseRaise(st) == [st EXCEPT !.raised = TRUE]

\* usage = usage or {}
UsageOrEmpty(usage) == IF Truthy(usage) THEN usage ELSE EmptyObj

\* on_message_delta with `usage = {}` in place of `usage = usage or {}`: the
\* fields set by earlier events are dropped
on_message_delta_FreshUsage(st, data) ==
    LET delta_usage == Get(data, "usage", EmptyObj)
    IN  IF ~Truthy(delta_usage) THEN st
        ELSE IF ~IsDict(delta_usage) THEN SseRaise(st)
        ELSE [st EXCEPT !.usage = SetItem(EmptyObj, "output_tokens",
                                          Get(delta_usage, "output_tokens", Null))]

\* the message_delta branch
on_message_delta(st, data) ==
    LET delta_usage == Get(data, "usage", EmptyObj)
    IN  IF ~Truthy(delta_usage) THEN st
        ELSE IF ~IsDict(delta_usage) THEN SseRaise(st)
        ELSE [st EXCEPT !.usage = SetItem(UsageOrEmpty(st.usage), "output_tokens",
                                          Get(delta_usage, "output_tokens", Null))]

\* the message_start branch
on_message_start(st, data) ==
    LET msg == Get(data, "message", EmptyObj)
        msg_usage == Get(msg, "usage", EmptyObj)
        u0 == UsageOrEmpty(st.usage)
        u1 == SetItem(u0, "input_tokens", Get(msg_usage, "input_tokens", Null))
        u2 == SetItem(u1, "cache_creation_input_tokens",
                      Get(msg_usage, "cache_creation_input_tokens", Null))
        u3 == SetItem(u2, "cache_read_input_tokens",
                      Get(msg_usage, "cache_read_input_tokens", Null))
    IN  IF ~IsDict(msg) THEN SseRaise(st)
        ELSE IF ~Truthy(msg_usage) THEN st
        ELSE IF ~IsDict(msg_usage) THEN SseRaise(st)
        ELSE [st EXCEPT !.usage = u3]

\* on_content_block_delta with text_parts.insert(0, ...) in place of append
on_content_block_delta_Prepend(st, data) ==
    LET delta == Get(data, "delta", EmptyObj)
    IN  IF ~IsDict(delta) THEN SseRaise(st)
        ELSE IF StrEq(Get(delta, "type", Null), "text_delta")
             THEN [st EXCEPT !.text_parts = <<Get(delta, "text", Text(<<>>))>> \o @]
        ELSE st

\* the content_block_delta branch
on_content_block_delta(st, data) ==
    LET delta == Get(data, "delta", EmptyObj)
    IN  IF ~IsDict(delta) THEN SseRaise(st)
        ELSE IF StrEq(Get(delta, "type", Null), "text_delta")
             THEN [st EXCEPT !.text_parts = Append(@, Get(delta, "text", Text(<<>>)))]
        ELSE st

\* one iteration of the loop over raw.split('\n')
parse_sse_line(st, line) ==
    IF line.kind \in {"other", "undecodable"} THEN st
    ELSE IF line.kind \in {"done", "badjson"} THEN st
    ELSE LET data == line.val
             event_type == Get(data, "type", Null)
         IN  IF ~IsDict(data) THEN SseRaise(st)
             ELSE IF StrEq(event_type, "content_block_delta") THEN on_content_block_delta(st, data)
             ELSE IF StrEq(event_type, "message_delta") THEN on_message_delta(st, data)
             ELSE IF StrEq(event_type, "message_start") THEN on_message_start(st, data)
             ELSE st

\* ''.join(parts) raises TypeError unless every part is a str
JoinRaises(parts) == \E n \in 1..Len(parts) : parts[n].j # "text"

RECURSIVE Join(_)
Join(parts) == IF parts = <<>> THEN <<>> ELSE Head(parts).v \o Join(Tail(parts))

\* what a call leaves its caller with: the returned pair, or an exception
Returned(text, usage) == [status |-> "returned", text |-> text, usage |-> usage]

Raised == [status |-> "raised", text |-> <<>>, usage |-> Null]

NotYet == [status |-> "notyet", text |-> <<>>, usage |-> Null]

\* return ''.join(text_parts), usage
sse_return(st) ==
    IF st.raised \/ JoinRaises(st.text_parts) THEN Raised
    ELSE Returned(Join(st.text_parts), st.usage)

\* the locals after the first n lines; an exception ends the loop
RECURSIVE SseLoop(_, _)
SseLoop(raw, n) ==
    IF n = 0 THEN SseStart
    ELSE LET st == SseLoop(raw, n - 1)
         IN  IF st.raised THEN st ELSE parse_sse_line(st, raw[n])

\* parse_sse_stream(raw)
parse_sse_stream(raw) == sse_return(SseLoop(raw, Len(raw)))

----------------------------------------------------------------------------
(* ScribeLogger._parse_sse_response                                         *)

\* scribe_sse_line without `except json.JSONDecodeError: continue`
scribe_sse_line_NoExcept(st, line) ==
    IF line.kind \in {"other", "undecodable"} THEN st
    ELSE IF line.kind = "done" THEN st
    ELSE IF line.kind = "badjson" THEN SseRaise(st)
    ELSE LET event == line.val
             delta == Get(event, "delta", EmptyObj)
         IN  IF ~IsDict(event) THEN SseRaise(st)
             ELSE IF StrEq(Get(event, "type", Text(<<>>)), "content_block_delta")
                  THEN IF ~IsDict(delta) THEN SseRaise(st)
                       ELSE IF StrEq(Get(delta, "type", Null), "text_delta")
                            THEN [st EXCEPT !.text_parts = Append(@, Get(delta, "text", Text(<<>>)))]
                       ELSE st
             ELSE st

\* one iteration of the loop over content.split("\n")
scribe_sse_line(st, line) ==
    IF line.kind \in {"other", "undecodable"} THEN st
    ELSE IF line.kind = "done" THEN st
    ELSE IF line.kind = "badjson" THEN st
    ELSE LET event == line.val
             delta == Get(event, "delta", EmptyObj)
         IN  IF ~IsDict(event) THEN SseRaise(st)
             ELSE IF StrEq(Get(event, "type", Text(<<>>)), "content_block_delta")
                  THEN IF ~IsDict(delta) THEN SseRaise(st)
                       ELSE IF StrEq(Get(delta, "type", Null), "text_delta")
                            THEN [st EXCEPT !.text_parts = Append(@, Get(delta, "text", Text(<<>>)))]
                       ELSE st
             ELSE st

RECURSIVE ScribeSseLoop(_, _)
ScribeSseLoop(content, n) ==
    IF n = 0 THEN SseStart
    ELSE LET st == ScribeSseLoop(content, n - 1)
         IN  IF st.raised THEN st ELSE scribe_sse_line(st, content[n])

\* _parse_sse_response(body): the text, or an exception
_parse_sse_response(body) ==
    IF DecodeFails(body) THEN Returned(<<>>, Null)
    ELSE LET st == ScribeSseLoop(body, Len(body))
         IN  IF st.raised \/ JoinRaises(st.text_parts) THEN Raised
             ELSE Returned(Join(st.text_parts), Null)

----------------------------------------------------------------------------
(* ScribeLogger._extract_text_from_content and ScribeLogger._is_system_noise *)

\* a call's outcome: the text it returned, or raised = TRUE
TextResult(text) == [raised |-> FALSE, text |-> text]

TextRaised == [raised |-> TRUE, text |-> <<>>]

\* the loop with texts.insert(0, ...) in place of texts.append(...)
RECURSIVE BlockTexts_Prepend(_)
BlockTexts_Prepend(blocks) ==
    IF blocks = <<>> THEN <<>>
    ELSE LET block == Head(blocks)
             rest == BlockTexts_Prepend(Tail(blocks))
         IN  IF IsDict(block)
             THEN IF StrEq(Get(block, "type", Text(<<>>)), "text")
                  THEN rest \o <<Get(block, "text", Text(<<>>))>>
                  ELSE rest
             ELSE IF block.j = "text" THEN rest \o <<block>>
             ELSE rest

\* the texts.append(...) of the loop over the blocks of a list content
RECURSIVE BlockTexts(_)
BlockTexts(blocks) ==
    IF blocks = <<>> THEN <<>>
    ELSE LET block == Head(blocks)
             rest == BlockTexts(Tail(blocks))
         IN  IF IsDict(block)
             THEN IF StrEq(Get(block, "type", Text(<<>>)), "text")
                  THEN <<Get(block, "text", Text(<<>>))>> \o rest
                  ELSE rest
             ELSE IF block.j = "text" THEN <<block>> \o rest
             ELSE rest

\* _extract_text_from_content(content)
_extract_text_from_content(content) ==
    IF content.j = "text" THEN TextResult(_strip_noise_tags(content.v))
    ELSE IF content.j = "list"
         THEN IF JoinRaises(BlockTexts(content.v)) THEN TextRaised
              ELSE TextResult(_strip_noise_tags(Join(BlockTexts(content.v))))
    ELSE TextResult(<<>>)

noise_exact == { <<"S", "t", "o", "p", " ", "h", "o", "o", "k", " ", "f", "e", "e", "d", "b", "a", "c", "k", ":">> }

noise_prefixes == { <<"C", "o", "m", "m", "a", "n", "d", ":", " ">>,
                    <<"<", "p", "o", "l", "i", "c", "y", "_", "s", "p", "e", "c", ">">>,
                    <<"<", "i", "s", "_", "d", "i", "s", "p", "l", "a", "y", "i", "n", "g", "_", "c", "o", "n", "t", "e", "n", "t", "s", ">">> }

\* the length below which a message without '?', '!' or '.' is noise
MinMessageLength == 10

\* _is_system_noise(text)
_is_system_noise(text) ==
    \/ text \in noise_exact
    \/ \E p \in noise_prefixes : OccursAt(text, p, 0)
    \/ /\ Len(text) < MinMessageLength
       /\ ~\E n \in 1..Len(text) : text[n] \in {"?", "!", "."}

----------------------------------------------------------------------------
(* The relational store as ScribeLogger sees it.  A world w holds the       *)
(* instance's connection and the two tables; db_ok says whether the server  *)
(* answers during the current hook.                                         *)

World(c, convs, msgs, uuids) ==
    [conn |-> c, conversations |-> convs, messages |-> msgs, uuid_count |-> uuids]

\* str(uuid.uuid4()): a value no earlier call returned
uuid4(w) == [j |-> "uuid", v |-> w.uuid_count + 1]

\* ScribeLogger._ensure_connection
_ensure_connection(w, db_ok) ==
    IF w.conn \in {"none", "closed"}
    THEN [w EXCEPT !.conn = IF db_ok THEN "open" ELSE "none"]
    ELSE w

\* the id of the row of conv_uuid, 0 when there is none
ConversationId(convs, conv_uuid) ==
    LET rows == {n \in 1..Len(convs) : convs[n] = conv_uuid}
    IN  IF rows = {} THEN 0 ELSE CHOOSE n \in rows : TRUE

\* ScribeLogger._get_or_create_conversation without the SELECT: every call
\* inserts a row
_get_or_create_conversation_NoLookup(w, db_ok, conv_uuid) ==
    LET w1 == _ensure_connection(w, db_ok)
    IN  IF w1.conn \in {"none", "closed"} THEN [w |-> w1, id |-> 0]
        ELSE IF ~db_ok \/ w1.conn = "broken"
             THEN [w |-> [w1 EXCEPT !.conn = "closed"], id |-> 0]
        ELSE [w |-> [w1 EXCEPT !.conversations = Append(@, conv_uuid)],
              id |-> Len(w1.conversations) + 1]

\* ScribeLogger._get_or_create_conversation: the world after the call and
\* the id it returned (0 for None)
_get_or_create_conversation(w, db_ok, conv_uuid) ==
    LET w1 == _ensure_connection(w, db_ok)
        row == ConversationId(w1.conversations, conv_uuid)
    IN  IF w1.conn \in {"none", "closed"} THEN [w |-> w1, id |-> 0]
        ELSE IF ~db_ok \/ w1.conn = "broken"
             THEN [w |-> [w1 EXCEPT !.conn = "closed"], id |-> 0]
        ELSE IF row # 0 THEN [w |-> w1, id |-> row]
        ELSE [w |-> [w1 EXCEPT !.conversations = Append(@, conv_uuid)],
              id |-> Len(w1.conversations) + 1]

\* ScribeLogger._insert_message with a plain INSERT, without ON CONFLICT
\* (uuid) DO NOTHING
_insert_message_NoConflictTest(w, db_ok, conv_id, role, content, msg_uuid) ==
    LET w1 == _ensure_connection(w, db_ok)
        fresh == ~Truthy(msg_uuid)
        w2 == IF fresh THEN [w1 EXCEPT !.uuid_count = @ + 1] ELSE w1
        id == IF fresh THEN uuid4(w1) ELSE msg_uuid
        row == [conversation_id |-> conv_id, uuid |-> id, role |-> role, content |-> content]
    IN  IF w1.conn \in {"none", "closed"} \/ conv_id = 0 THEN w1
        ELSE IF ~db_ok \/ w1.conn = "broken" THEN [w2 EXCEPT !.conn = "closed"]
        ELSE [w2 EXCEPT !.messages = Append(@, row)]

\* ScribeLogger._insert_message: the world after the call
_insert_message(w, db_ok, conv_id, role, content, msg_uuid) ==
    LET w1 == _ensure_connection(w, db_ok)
        fresh == ~Truthy(msg_uuid)
        w2 == IF fresh THEN [w1 EXCEPT !.uuid_count = @ + 1] ELSE w1
        id == IF fresh THEN uuid4(w1) ELSE msg_uuid
        row == [conversation_id |-> conv_id, uuid |-> id, role |-> role, content |-> content]
    IN  IF w1.conn \in {"none", "closed"} \/ conv_id = 0 THEN w1
        ELSE IF ~db_ok \/ w1.conn = "broken" THEN [w2 EXCEPT !.conn = "closed"]
        ELSE IF \E n \in 1..Len(w2.messages) : w2.messages[n].uuid = id THEN w2
        ELSE [w2 EXCEPT !.messages = Append(@, row)]

----------------------------------------------------------------------------
(* Flows: what the proxy hands to the hooks.                                *)

Flows == 1..NumFlows

\* content that json.loads rejects (and that holds no SSE data line)
Unparsable == [kind |-> "bad"]

\* content that is the JSON document val
JsonDoc(val) == [kind |-> "json", val |-> val]

\* content that is an SSE stream of the given lines
SseDoc(lines) == [kind |-> "sse", lines |-> lines]

\* content.split("\n") as the SSE parsers see it: only an SSE stream has
\* lines that start with "data: "
LinesOf(content) == IF content.kind = "sse" THEN content.lines ELSE <<OtherLine>>

\* a flow's request: whether its path contains /v1/messages, the value of
\* its x-conversation-id header (Null when absent) and its content
Request(route, conv, content) == [route |-> route, conv |-> conv, content |-> content]

\* the flow has not been seen
NoRequest == [route |-> FALSE, conv |-> Null, content |-> [kind |-> "none"]]

\* the dict a pending entry of the scribe store is
Pending(conv_uuid, msgs, is_streaming) ==
    [conv_uuid |-> conv_uuid, messages |-> msgs, is_streaming |-> is_streaming]

\* d.setdefault(k, v) in place of d[k] = v: an entry already there stays
DictPut_SetDefault(d, k, v) ==
    IF k \in DOMAIN d THEN d ELSE [x \in DOMAIN d \cup {k} |-> IF x = k THEN v ELSE d[x]]

\* d = {k: v} in place of d[k] = v: the entries of the other keys are gone
DictPut_Rebind(d, k, v) == [x \in {k} |-> v]

\* d[k] = v
DictPut(d, k, v) == [x \in DOMAIN d \cup {k} |-> IF x = k THEN v ELSE d[x]]

\* d.get(k, None) in place of d.pop(k, None): the entry stays
DictPop_Get(d, k) == d

\* the dict after d.pop(k, None)
DictPop(d, k) == [x \in DOMAIN d \ {k} |-> d[x]]

----------------------------------------------------------------------------
(* ScribeLogger.request and ScribeLogger.response                           *)

\* what a hook leaves behind: the store and the world
ScribeOut(store, w) == [store |-> store, w |-> w]

\* the loop over reversed(messages): the world after it.  n is the index of
\* the message the loop is at, 0 when it has run out; an exception ends it.
RECURSIVE record_last_user_message(_, _, _, _, _)
record_last_user_message(w, db_ok, conv_id, msgs, n) ==
    IF n = 0 THEN w
    ELSE LET msg == msgs[n]
             msg_content == Get(msg, "content", Text(<<>>))
             has_text == \E b \in 1..Len(msg_content.v) :
                            /\ IsDict(msg_content.v[b])
                            /\ StrEq(Get(msg_content.v[b], "type", Null), "text")
             content == _extract_text_from_content(msg_content)
             stripped == strip(content.text)
         IN  IF ~IsDict(msg) THEN w
             ELSE IF ~StrEq(Get(msg, "role", Null), "user")
                  THEN record_last_user_message(w, db_ok, conv_id, msgs, n - 1)
             ELSE IF msg_content.j = "list" /\ ~has_text
                  THEN record_last_user_message(w, db_ok, conv_id, msgs, n - 1)
             ELSE IF content.raised THEN w
             ELSE IF stripped # <<>> /\ ~_is_system_noise(stripped)
                  THEN _insert_message(w, db_ok, conv_id, "human", stripped, Null)
             ELSE record_last_user_message(w, db_ok, conv_id, msgs, n - 1)

\* ScribeLogger.request(flow) without the test of the path
scribe_request_NoRouteTest(store, w, f, req, db_ok) ==
    LET body == req.content.val
        msgs == Get(body, "messages", List(<<>>))
        has_header == req.conv # Null
        conv_uuid == IF has_header THEN req.conv ELSE uuid4(w)
        w0 == [w EXCEPT !.uuid_count = @ + 1]
        entry == Pending(conv_uuid, msgs, Get(body, "stream", Bool(FALSE)))
        store1 == DictPut(store, f, entry)
        conv == _get_or_create_conversation(w0, db_ok, conv_uuid)
    IN  IF req.content.kind # "json" THEN ScribeOut(store, w)
        ELSE IF ~IsDict(body) THEN ScribeOut(store, w)
        ELSE IF conv.id = 0 THEN ScribeOut(store1, conv.w)
        ELSE IF msgs.j # "list" THEN ScribeOut(store1, conv.w)
        ELSE ScribeOut(store1,
                       record_last_user_message(conv.w, db_ok, conv.id, msgs.v, Len(msgs.v)))

\* ScribeLogger.request(flow)
scribe_request(store, w, f, req, db_ok) ==
    LET body == req.content.val
        msgs == Get(body, "messages", List(<<>>))
        has_header == req.conv # Null
        conv_uuid == IF has_header THEN req.conv ELSE uuid4(w)
        \* headers.get(name, str(uuid.uuid4())) takes a uuid even when the header is there
        w0 == [w EXCEPT !.uuid_count = @ + 1]
        entry == Pending(conv_uuid, msgs, Get(body, "stream", Bool(FALSE)))
        store1 == DictPut(store, f, entry)
        conv == _get_or_create_conversation(w0, db_ok, conv_uuid)
    IN  IF ~req.route THEN ScribeOut(store, w)
        ELSE IF req.content.kind # "json" THEN ScribeOut(store, w)
        ELSE IF ~IsDict(body) THEN ScribeOut(store, w)
        ELSE IF conv.id = 0 THEN ScribeOut(store1, conv.w)
        ELSE IF msgs.j # "list" THEN ScribeOut(store1, conv.w)
        ELSE ScribeOut(store1,
                       record_last_user_message(conv.w, db_ok, conv.id, msgs.v, Len(msgs.v)))

\* the part of ScribeLogger.response after the conversation is known
record_assistant_message(w, db_ok, conv_id, pending, resp) ==
    LET sse == _parse_sse_response(LinesOf(resp))
        body == resp.val
        extracted == _extract_text_from_content(Get(body, "content", List(<<>>)))
        streaming == Truthy(pending.is_streaming)
        failed == IF streaming THEN sse.status = "raised"
                  ELSE resp.kind # "json" \/ ~IsDict(body) \/ extracted.raised
        content == IF streaming THEN sse.text ELSE extracted.text
        msg_uuid == IF streaming THEN Null ELSE Get(body, "id", Null)
        stripped == strip(content)
    IN  IF failed THEN w
        ELSE IF stripped # <<>> /\ ~_is_system_noise(stripped)
             THEN _insert_message(w, db_ok, conv_id, "assistant", stripped, msg_uuid)
        ELSE w

\* ScribeLogger.response reading the conversation id from the request headers
\* again (with a new uuid4 default) instead of from the pending entry
scribe_response_HeaderAgain(store, w, f, req, resp, db_ok) ==
    LET found == f \in DOMAIN store
        pending == store[f]
        store1 == DictPop(store, f)
        w0 == [w EXCEPT !.uuid_count = @ + 1]
        conv_uuid == IF req.conv # Null THEN req.conv ELSE uuid4(w)
        conv == _get_or_create_conversation(w0, db_ok, conv_uuid)
    IN  IF ~req.route THEN ScribeOut(store, w)
        ELSE IF ~found THEN ScribeOut(store1, w)
        ELSE IF conv.id = 0 THEN ScribeOut(store1, conv.w)
        ELSE ScribeOut(store1, record_assistant_message(conv.w, db_ok, conv.id, pending, resp))

\* ScribeLogger.response(flow)
scribe_response(store, w, f, req, resp, db_ok) ==
    LET found == f \in DOMAIN store
        pending == store[f]
        store1 == DictPop(store, f)
        conv == _get_or_create_conversation(w, db_ok, pending.conv_uuid)
    IN  IF ~req.route THEN ScribeOut(store, w)
        ELSE IF ~found THEN ScribeOut(store1, w)
        ELSE IF conv.id = 0 THEN ScribeOut(store1, conv.w)
        ELSE ScribeOut(store1, record_assistant_message(conv.w, db_ok, conv.id, pending, resp))

----------------------------------------------------------------------------
(* LangfuseLogger.request and LangfuseLogger.response                       *)

\* what a hook leaves behind: the store and the generations sent so far
LangfuseOut(store, records) == [store |-> store, records |-> records]

\* LangfuseLogger.request(flow)
langfuse_request(store, f, req) ==
    IF ~req.route THEN store
    ELSE IF req.content.kind # "json" THEN store
    ELSE DictPut(store, f, req.content.val)

\* the ''.join over the text blocks of a non-streaming response: an element
\* that is no dict, or a text that is no str, raises
RECURSIVE LangfuseBlockTexts(_)
LangfuseBlockTexts(blocks) ==
    IF blocks = <<>> THEN <<>>
    ELSE LET block == Head(blocks)
         IN  IF ~IsDict(block) THEN <<Null>>
             ELSE IF StrEq(Get(block, "type", Null), "text")
                  THEN <<Get(block, "text", Text(<<>>))>> \o LangfuseBlockTexts(Tail(blocks))
             ELSE LangfuseBlockTexts(Tail(blocks))

\* ''.join(block.get('text', '') for block in content if block.get('type') == 'text'):
\* iterating an empty str or dict yields nothing, a non-empty one yields str
\* elements without .get, and any other non-list is not iterable
langfuse_extract(content) ==
    IF content.j = "list"
    THEN IF JoinRaises(LangfuseBlockTexts(content.v)) THEN TextRaised
         ELSE TextResult(Join(LangfuseBlockTexts(content.v)))
    ELSE IF content.j = "text" /\ content.v = <<>> THEN TextResult(<<>>)
    ELSE IF content.j = "obj" /\ DOMAIN content.v = {} THEN TextResult(<<>>)
    ELSE TextRaised

\* the output and usage of the response, or an exception
langfuse_output(request_data, resp) ==
    LET response_body == resp.val
        extracted == langfuse_extract(Get(response_body, "content", List(<<>>)))
    IN  IF Truthy(Get(request_data, "stream", Null))
        THEN parse_sse_stream(DecodeReplace(LinesOf(resp)))
        ELSE IF resp.kind # "json" \/ ~IsDict(response_body) THEN Raised
        ELSE IF extracted.raised THEN Raised
        ELSE Returned(extracted.text, Get(response_body, "usage", EmptyObj))

\* the usage_details of generation.update, Null when `if usage:` is false
usage_details(usage) ==
    IF ~Truthy(usage) THEN Null
    ELSE Obj([input |-> Get(usage, "input_tokens", Null),
              output |-> Get(usage, "output_tokens", Null),
              cache_creation_input_tokens |-> Get(usage, "cache_creation_input_tokens", Null),
              cache_read_input_tokens |-> Get(usage, "cache_read_input_tokens", Null)])

\* LangfuseLogger.response with pending_flows.pop(flow.id, {}) and no test of
\* the entry: a missing entry is logged as an empty request
langfuse_response_NoMissTest(store, records, f, req, resp, lf_ok) ==
    LET found == f \in DOMAIN store
        request_data == IF found THEN store[f] ELSE EmptyObj
        store1 == DictPop(store, f)
        out == langfuse_output(request_data, resp)
        generation == [flow_id |-> f, input |-> request_data, output |-> out.text,
                       usage_details |-> usage_details(out.usage)]
    IN  IF ~req.route THEN LangfuseOut(store, records)
        ELSE IF ~IsDict(request_data) THEN LangfuseOut(store1, records)
        ELSE IF out.status = "raised" THEN LangfuseOut(store1, records)
        ELSE IF IsDict(out.usage) \/ ~Truthy(out.usage)
             THEN IF lf_ok THEN LangfuseOut(store1, Append(records, generation))
                  ELSE LangfuseOut(store1, records)
        ELSE LangfuseOut(store1, records)

\* LangfuseLogger.response(flow); lf_ok says whether the Langfuse client
\* accepts the generation (otherwise it raises).  extract_trace_name only
\* formats a name and does not raise on the request bodies of the model.
langfuse_response(store, records, f, req, resp, lf_ok) ==
    LET found == f \in DOMAIN store
        request_data == store[f]
        store1 == DictPop(store, f)
        out == langfuse_output(request_data, resp)
        generation == [flow_id |-> f, input |-> request_data, output |-> out.text,
                       usage_details |-> usage_details(out.usage)]
    IN  IF ~req.route THEN LangfuseOut(store, records)
        ELSE IF ~found THEN LangfuseOut(store1, records)
        ELSE IF ~Truthy(request_data) THEN LangfuseOut(store1, records)
        ELSE IF ~IsDict(request_data) THEN LangfuseOut(store1, records)
        ELSE IF out.status = "raised" THEN LangfuseOut(store1, records)
        ELSE IF IsDict(out.usage) \/ ~Truthy(out.usage)
             THEN IF lf_ok THEN LangfuseOut(store1, Append(records, generation))
                  ELSE LangfuseOut(store1, records)
        ELSE LangfuseOut(store1, records)

----------------------------------------------------------------------------
(* BufferLogger.request and BufferLogger.response.  An entry of the stream   *)
(* keeps the fields that tell entries apart: type, flow_id, the metadata    *)
(* parsed from the request, request_entry_id and body; the timestamp and    *)
(* the size, status_code and content_type strings are left out.             *)

\* what a hook leaves behind: the stream, flow.metadata["buffer_entry_id"]
\* (0 when not set), and whether an exception left the hook
BufferOut(strm, entry_id, raised) == [strm |-> strm, entry_id |-> entry_id, raised |-> raised]

\* len(x), -1 when it raises TypeError
LenOf(x) ==
    IF x.j \in {"list", "text"} THEN Len(x.v)
    ELSE IF x.j = "obj" THEN Cardinality(DOMAIN x.v)
    ELSE IF x.j = "str" THEN 1
    ELSE -1

\* redis-py encodes str, bytes, int and float field values and rejects the rest
RedisAccepts(x) == x.j \in {"str", "text", "int"}

\* BufferLogger.request without the outer try/except: a failed XADD leaves
\* the hook as an exception
buffer_request_NoExcept(strm, entry_id, f, req, redis_ok) ==
    LET is_json == req.content.kind = "json"
        model == IF is_json THEN Get(req.content.val, "model", Str("unknown"))
                 ELSE Str("unknown")
        msg_count == IF is_json THEN LenOf(Get(req.content.val, "messages", List(<<>>)))
                     ELSE 0
        entry == [type |-> "request", flow_id |-> f, model |-> model,
                  message_count |-> msg_count, body |-> req.content]
    IN  IF ~req.route THEN BufferOut(strm, entry_id, FALSE)
        ELSE IF is_json /\ ~IsDict(req.content.val) THEN BufferOut(strm, entry_id, TRUE)
        ELSE IF msg_count = -1 THEN BufferOut(strm, entry_id, TRUE)
        ELSE IF ~RedisAccepts(model) \/ ~redis_ok THEN BufferOut(strm, entry_id, TRUE)
        ELSE BufferOut(Append(strm, entry), Len(strm) + 1, FALSE)

\* BufferLogger.request(flow); redis_ok says whether XADD succeeds
buffer_request(strm, entry_id, f, req, redis_ok) ==
    LET is_json == req.content.kind = "json"
        model == IF is_json THEN Get(req.content.val, "model", Str("unknown"))
                 ELSE Str("unknown")
        msg_count == IF is_json THEN LenOf(Get(req.content.val, "messages", List(<<>>)))
                     ELSE 0
        entry == [type |-> "request", flow_id |-> f, model |-> model,
                  message_count |-> msg_count, body |-> req.content]
    IN  IF ~req.route THEN BufferOut(strm, entry_id, FALSE)
        ELSE IF is_json /\ ~IsDict(req.content.val) THEN BufferOut(strm, entry_id, FALSE)
        ELSE IF msg_count = -1 THEN BufferOut(strm, entry_id, FALSE)
        ELSE IF ~RedisAccepts(model) \/ ~redis_ok THEN BufferOut(strm, entry_id, FALSE)
        ELSE BufferOut(Append(strm, entry), Len(strm) + 1, FALSE)

\* BufferLogger.response(flow) with the id of the latest request entry of
\* the stream in place of the id kept on the flow
buffer_response_LatestRequest(strm, entry_id, f, req, resp, redis_ok) ==
    LET requests == {n \in 1..Len(strm) : strm[n].type = "request"}
        latest == IF requests = {} THEN 0
                  ELSE CHOOSE n \in requests : \A m \in requests : m <= n
        entry == [type |-> "response", flow_id |-> f, request_entry_id |-> latest,
                  body |-> resp]
    IN  IF ~req.route THEN BufferOut(strm, entry_id, FALSE)
        ELSE IF ~redis_ok THEN BufferOut(strm, entry_id, FALSE)
        ELSE BufferOut(Append(strm, entry), entry_id, FALSE)

\* BufferLogger.response(flow); request_entry_id 0 stands for "unknown"
buffer_response(strm, entry_id, f, req, resp, redis_ok) ==
    LET entry == [type |-> "response", flow_id |-> f, request_entry_id |-> entry_id,
                  body |-> resp]
    IN  IF ~req.route THEN BufferOut(strm, entry_id, FALSE)
        ELSE IF ~redis_ok THEN BufferOut(strm, entry_id, FALSE)
        ELSE BufferOut(Append(strm, entry), entry_id, FALSE)

----------------------------------------------------------------------------
(* The proxy dispatching request and response events to both addons.        *)

HelloText == <<"h", "i", "!">>

ReplyText == <<"o", "k", ".">>

\* {"type": "text", "text": cs}
TextBlock(cs) == Obj([type |-> Str("text"), text |-> Text(cs)])

\* {"model": ..., "messages": [{"role": "user", "content": "hi!"}], "stream": stream}
ChatBody(stream) ==
    Obj([model |-> Str("claude"),
         messages |-> List(<<Obj([role |-> Str("user"), content |-> Text(HelloText)])>>),
         stream |-> Bool(stream)])

Requests ==
    { Request(FALSE, Str("c1"), JsonDoc(ChatBody(FALSE))),
      Request(TRUE, Null, Unparsable),
      Request(TRUE, Str("c1"), JsonDoc(EmptyObj)),
      Request(TRUE, Str("c1"), JsonDoc(ChatBody(FALSE))),
      Request(TRUE, Str("c1"), JsonDoc(ChatBody(TRUE))),
      Request(TRUE, Null, JsonDoc(ChatBody(FALSE))) }

Responses ==
    { Unparsable,
      JsonDoc(Obj([id |-> Str("msg_1"),
                   content |-> List(<<Obj([type |-> Str("text"), text |-> Text(ReplyText)])>>),
                   usage |-> Obj([input_tokens |-> Num(10), output_tokens |-> Num(5)])])),
      SseDoc(<<MessageStart(UsageIn10), TextDelta(ReplyText), MessageDelta(UsageOut5)>>) }

\* before the first event
NoEvent == [hook |-> "none", flow |-> 0, scribe_found |-> FALSE, langfuse_found |-> FALSE]

\* the event dispatched and whether each addon had an entry for its flow
Event(hook, f) ==
    [hook |-> hook, flow |-> f,
     scribe_found |-> f \in DOMAIN _pending_requests,
     langfuse_found |-> f \in DOMAIN pending_flows]

\* the noise filter has not been applied
NfIdle ==
    /\ nf_text = <<>>
    /\ nf_hist = <<>>
    /\ nf_steps = <<>>

\* the extractors have not been applied
ExIdle ==
    /\ ex_content = Null
    /\ ex_scribe = TextResult(<<>>)
    /\ ex_langfuse = TextResult(<<>>)
    /\ ex_done = FALSE

\* no SSE body is being parsed
SseIdle ==
    /\ sse_body = <<>>
    /\ sse_pos = 0
    /\ sse_state = SseStart
    /\ sse_result = NotYet
    /\ scribe_result = NotYet

\* the proxy has dispatched no event
HooksIdle ==
    /\ flow_request = [f \in Flows |-> NoRequest]
    /\ _pending_requests = <<>>
    /\ conn = "none"
    /\ conversations = <<>>
    /\ messages = <<>>
    /\ uuid_count = 0
    /\ pending_flows = <<>>
    /\ lf_records = <<>>
    /\ db_up = TRUE
    /\ lf_up = TRUE
    /\ redis_up = TRUE
    /\ redis_stream = <<>>
    /\ flow_metadata = [f \in Flows |-> 0]
    /\ quota_csv = <<>>
    /\ propagated = {}
    /\ calls = 0
    /\ last = NoEvent

Init ==
    /\ flow_request = [f \in Flows |-> NoRequest]
    /\ _pending_requests = <<>>
    /\ db_up \in BOOLEAN
    /\ lf_up = TRUE
    /\ conn = (IF db_up THEN "open" ELSE "none")
    /\ conversations = <<>>
    /\ messages = <<>>
    /\ uuid_count = 0
    /\ pending_flows = <<>>
    /\ lf_records = <<>>
    /\ redis_up = TRUE
    /\ redis_stream = <<>>
    /\ flow_metadata = [f \in Flows |-> 0]
    /\ quota_csv = <<>>
    /\ propagated = {}
    /\ calls = 0
    /\ last = NoEvent
    /\ NfIdle
    /\ SseIdle
    /\ ExIdle

\* the proxy dispatches the request event of flow f to both addons
RequestEvent(f, req) ==
    LET w == World(conn, conversations, messages, uuid_count)
        s == scribe_request(_pending_requests, w, f, req, db_up)
    IN  /\ calls < MaxCalls
        /\ calls' = calls + 1
        /\ flow_request' = [flow_request EXCEPT ![f] = req]
        /\ _pending_requests' = s.store
        /\ conn' = s.w.conn
        /\ conversations' = s.w.conversations
        /\ messages' = s.w.messages
        /\ uuid_count' = s.w.uuid_count
        /\ pending_flows' = langfuse_request(pending_flows, f, req)
        /\ lf_records' = lf_records
        /\ last' = Event("request", f)
        /\ UNCHANGED <<db_up, lf_up, buffer_vars, propagated, nf_vars, sse_vars, ex_vars, quota_csv>>

\* the proxy dispatches the response event of flow f to both addons
ResponseEvent(f, resp) ==
    LET w == World(conn, conversations, messages, uuid_count)
        req == flow_request[f]
        s == scribe_response(_pending_requests, w, f, req, resp, db_up)
        l == langfuse_response(pending_flows, lf_records, f, req, resp, lf_up)
    IN  /\ calls < MaxCalls
        /\ req # NoRequest
        /\ calls' = calls + 1
        /\ flow_request' = flow_request
        /\ _pending_requests' = s.store
        /\ conn' = s.w.conn
        /\ conversations' = s.w.conversations
        /\ messages' = s.w.messages
        /\ uuid_count' = s.w.uuid_count
        /\ pending_flows' = l.store
        /\ lf_records' = l.records
        /\ last' = Event("response", f)
        /\ UNCHANGED <<db_up, lf_up, buffer_vars, propagated, nf_vars, sse_vars, ex_vars, quota_csv>>

\* PostgreSQL goes down or comes back; a statement on an open connection
\* fails while it is down.  When it comes back, the session of an open
\* connection has either survived (the network was cut) or is gone (the
\* server restarted); the addon sees neither until a hook uses the connection
PostgresChanges ==
    /\ calls < MaxCalls
    /\ calls' = calls + 1
    /\ db_up' = ~db_up
    /\ \E survives \in BOOLEAN :
           conn' = IF ~db_up /\ conn = "open" /\ ~survives THEN "broken" ELSE conn
    /\ last' = [NoEvent EXCEPT !.hook = "postgres"]
    /\ UNCHANGED <<_pending_requests, conversations, messages, uuid_count>>
    /\ UNCHANGED <<flow_request, langfuse_vars, buffer_vars, lf_up, propagated>>
    /\ UNCHANGED <<nf_vars, sse_vars, ex_vars, quota_csv>>

\* the Langfuse client starts or stops raising
LangfuseChanges ==
    /\ calls < MaxCalls
    /\ calls' = calls + 1
    /\ lf_up' = ~lf_up
    /\ last' = [NoEvent EXCEPT !.hook = "langfuse"]
    /\ UNCHANGED <<flow_request, scribe_vars, langfuse_vars, buffer_vars, db_up, propagated>>
    /\ UNCHANGED <<nf_vars, sse_vars, ex_vars, quota_csv>>

Next ==
    \/ \E f \in Flows, req \in Requests : RequestEvent(f, req)
    \/ \E f \in Flows, resp \in Responses : ResponseEvent(f, resp)
    \/ PostgresChanges
    \/ LangfuseChanges

Spec == Init /\ [][Next]_vars

----------------------------------------------------------------------------
(* The correlation stores over time.  The stores keep no timestamp and no   *)
(* hook reads the clock, so the passing of time is a step of the            *)
(* environment that changes nothing in the addons.                          *)

\* a long time passes between two events: longer than any time-to-live a
\* pending entry could be given
TimePasses ==
    /\ calls < MaxCalls
    /\ calls' = calls + 1
    /\ last' = [NoEvent EXCEPT !.hook = "clock"]
    /\ UNCHANGED <<flow_request, scribe_vars, langfuse_vars, buffer_vars, db_up, lf_up, propagated>>
    /\ UNCHANGED <<nf_vars, sse_vars, ex_vars, quota_csv>>

StoreNext ==
    \/ \E f \in Flows, req \in Requests : RequestEvent(f, req)
    \/ \E f \in Flows, resp \in Responses : ResponseEvent(f, resp)
    \/ TimePasses

SpecStore == Init /\ [][StoreNext]_vars

----------------------------------------------------------------------------
(* Responses whose text carries a noise block, sent to flows that asked for *)
(* a stream and to flows that did not.                                      *)

\* <system-reminder>x</system-reminder>
NoiseBlock == open_tag(NOISE_TAGS[1]) \o <<"x">> \o close_tag(NOISE_TAGS[1])

ReplyRequests ==
    { Request(TRUE, Str("c1"), JsonDoc(ChatBody(FALSE))),
      Request(TRUE, Str("c1"), JsonDoc(ChatBody(TRUE))) }

\* a command echo: short and without ? ! .
EchoText == <<"p", "s", "q", "l">>

\* the reply "ok." with a noise block before it, as one JSON document and as
\* an SSE stream whose deltas carry the block and the reply, the same reply
\* without the block, and a command echo with a noise block before it
ReplyResponses ==
    { JsonDoc(Obj([id |-> Str("msg_1"),
                   content |-> List(<<TextBlock(NoiseBlock \o ReplyText)>>)])),
      JsonDoc(Obj([id |-> Str("msg_2"),
                   content |-> List(<<TextBlock(ReplyText)>>)])),
      SseDoc(<<MessageStart(UsageIn10), TextDelta(NoiseBlock), TextDelta(ReplyText),
               MessageDelta(UsageOut5)>>),
      JsonDoc(Obj([id |-> Str("msg_3"),
                   content |-> List(<<TextBlock(NoiseBlock \o EchoText)>>)])),
      SseDoc(<<MessageStart(UsageIn10), TextDelta(NoiseBlock), TextDelta(EchoText),
               MessageDelta(UsageOut5)>>),
      SseDoc(<<MessageStart(UsageIn10), TextDelta(ReplyText), MessageDelta(UsageOut5)>>) }

ReplyNext ==
    \/ \E f \in Flows, req \in ReplyRequests : RequestEvent(f, req)
    \/ \E f \in Flows, resp \in ReplyResponses : ResponseEvent(f, resp)

SpecReply == Init /\ [][ReplyNext]_vars

----------------------------------------------------------------------------
(* QuotaLogger.response, the only hook of the quota addon.  Headers are a   *)
(* function from header names to values; a row of quota.csv keeps the       *)
(* request id and the nine values, the timestamp is left out.               *)

QUOTA_HEADERS ==
    << "anthropic-ratelimit-unified-5h-utilization",
       "anthropic-ratelimit-unified-5h-reset",
       "anthropic-ratelimit-unified-5h-status",
       "anthropic-ratelimit-unified-7d-utilization",
       "anthropic-ratelimit-unified-7d-reset",
       "anthropic-ratelimit-unified-7d-status",
       "anthropic-ratelimit-unified-fallback",
       "anthropic-ratelimit-unified-fallback-percentage",
       "anthropic-ratelimit-unified-overage-status" >>

Utilization5h == QUOTA_HEADERS[1]

Utilization7d == QUOTA_HEADERS[4]

AnthropicHost == <<"a", "p", "i", ".", "a", "n", "t", "h", "r", "o", "p", "i", "c", ".", "c", "o", "m">>

\* headers.get(name, default)
HeaderGet(headers, name, default) ==
    IF name \in DOMAIN headers THEN headers[name] ELSE default

\* whether float(s) returns: the values of the model are made of digits,
\* dots and other characters, without sign or exponent
float_ok(s) ==
    LET body == strip(s)
    IN  /\ body # <<>>
        /\ \A n \in 1..Len(body) : body[n] \in {"0", "1", "2", "5", "."}
        /\ Cardinality({n \in 1..Len(body) : body[n] = "."}) <= 1
        /\ \E n \in 1..Len(body) : body[n] # "."

\* what the hook leaves behind: the file, and whether it raised
QuotaOut(csv, raised) == [csv |-> csv, raised |-> raised]

\* QuotaLogger.response(flow)
quota_response(csv, host, headers) ==
    LET row == [request_id |-> HeaderGet(headers, "request-id", <<>>),
                values |-> [n \in 1..Len(QUOTA_HEADERS) |->
                               HeaderGet(headers, QUOTA_HEADERS[n], <<>>)]]
        util_5h == HeaderGet(headers, Utilization5h, <<"?">>)
        util_7d == HeaderGet(headers, Utilization7d, <<"?">>)
    IN  IF find(host, AnthropicHost) = -1 THEN QuotaOut(csv, FALSE)
        ELSE IF ~\E n \in 1..Len(QUOTA_HEADERS) : QUOTA_HEADERS[n] \in DOMAIN headers
             THEN QuotaOut(csv, FALSE)
        ELSE QuotaOut(Append(csv, row), ~(float_ok(util_5h) /\ float_ok(util_7d)))

QuotaHosts == { AnthropicHost, <<"e", "x", "a", "m", "p", "l", "e", ".", "o", "r", "g">> }

\* the response headers: all quota headers, some of them, a utilization that
\* is no number, and none
QuotaHeaderSets ==
    { [h \in {QUOTA_HEADERS[n] : n \in 1..Len(QUOTA_HEADERS)} \cup {"request-id"} |->
          IF h \in {Utilization5h, Utilization7d} THEN <<"0", ".", "5">> ELSE <<"o", "k">>],
      [h \in {Utilization5h, Utilization7d} |->
          IF h = Utilization5h THEN <<"0", ".", "2", "5">> ELSE <<"1">>],
      [h \in {Utilization5h, Utilization7d} |->
          IF h = Utilization5h THEN <<"0", ".", "5">> ELSE <<>>],
      [h \in {Utilization5h} |-> <<"0", ".", "5">>],
      [h \in {QUOTA_HEADERS[3]} |-> <<"o", "k">>],
      [h \in {"request-id"} |-> <<"r", "1">>],
      [h \in {} |-> <<>>] }

\* the proxy dispatches a response event to QuotaLogger
QuotaResponse(host, headers) ==
    LET q == quota_response(quota_csv, host, headers)
    IN  /\ calls < MaxCalls
        /\ calls' = calls + 1
        /\ quota_csv' = q.csv
        /\ propagated' = IF q.raised THEN {"quota"} ELSE {}
        /\ last' = [NoEvent EXCEPT !.hook = "response"]
        /\ UNCHANGED <<flow_request, scribe_vars, langfuse_vars, buffer_vars, db_up, lf_up>>
        /\ UNCHANGED <<nf_vars, sse_vars, ex_vars>>

QuotaInit ==
    /\ HooksIdle
    /\ NfIdle
    /\ SseIdle
    /\ ExIdle

QuotaNext == \E host \in QuotaHosts, headers \in QuotaHeaderSets : QuotaResponse(host, headers)

SpecQuota == QuotaInit /\ [][QuotaNext]_vars

----------------------------------------------------------------------------
(* The proxy with the three sink addons loaded: BufferLogger, ScribeLogger  *)
(* and LangfuseLogger each get every event, in that order, and each sink    *)
(* may be unreachable from the start.                                       *)

AddonRequests ==
    { Request(TRUE, Str("c1"), JsonDoc(ChatBody(FALSE))),
      Request(TRUE, Null, Unparsable),
      Request(TRUE, Str("c1"), JsonDoc(List(<<>>))) }

AddonResponses ==
    { Unparsable,
      JsonDoc(Obj([id |-> Str("msg_1"),
                   content |-> List(<<Obj([type |-> Str("text"), text |-> Text(ReplyText)])>>),
                   usage |-> Obj([input_tokens |-> Num(10), output_tokens |-> Num(5)])])) }

\* the event dispatched, whether the correlating addons had an entry for its
\* flow, and the content the event carries
AddonEvent(hook, f, content) ==
    [hook |-> hook, flow |-> f,
     scribe_found |-> f \in DOMAIN _pending_requests,
     langfuse_found |-> f \in DOMAIN pending_flows,
     content |-> content]

AddonsInit ==
    /\ flow_request = [f \in Flows |-> NoRequest]
    /\ _pending_requests = <<>>
    /\ db_up \in BOOLEAN
    /\ lf_up \in BOOLEAN
    /\ redis_up \in BOOLEAN
    /\ conn = (IF db_up THEN "open" ELSE "none")
    /\ conversations = <<>>
    /\ messages = <<>>
    /\ uuid_count = 0
    /\ pending_flows = <<>>
    /\ lf_records = <<>>
    /\ redis_stream = <<>>
    /\ flow_metadata = [f \in Flows |-> 0]
    /\ quota_csv = <<>>
    /\ propagated = {}
    /\ calls = 0
    /\ last = NoEvent
    /\ NfIdle
    /\ SseIdle
    /\ ExIdle

\* the request event with a hook that writes the parsed body back into
\* flow.request (an unparsable body is replaced by an empty object)
AddonsRequest_Rewrites(f, req) ==
    LET w == World(conn, conversations, messages, uuid_count)
        b == buffer_request(redis_stream, flow_metadata[f], f, req, redis_up)
        s == scribe_request(_pending_requests, w, f, req, db_up)
        left == IF req.content.kind = "json" THEN req
                ELSE [req EXCEPT !.content = JsonDoc(EmptyObj)]
    IN  /\ calls < MaxCalls
        /\ calls' = calls + 1
        /\ flow_request' = [flow_request EXCEPT ![f] = left]
        /\ redis_stream' = b.strm
        /\ flow_metadata' = [flow_metadata EXCEPT ![f] = b.entry_id]
        /\ propagated' = IF b.raised THEN {"buffer"} ELSE {}
        /\ _pending_requests' = s.store
        /\ conn' = s.w.conn
        /\ conversations' = s.w.conversations
        /\ messages' = s.w.messages
        /\ uuid_count' = s.w.uuid_count
        /\ pending_flows' = langfuse_request(pending_flows, f, req)
        /\ lf_records' = lf_records
        /\ last' = AddonEvent("request", f, req.content)
        /\ UNCHANGED <<db_up, lf_up, redis_up, nf_vars, sse_vars, ex_vars, quota_csv>>

\* the proxy dispatches the request event of flow f to the three addons
AddonsRequest(f, req) ==
    LET w == World(conn, conversations, messages, uuid_count)
        b == buffer_request(redis_stream, flow_metadata[f], f, req, redis_up)
        s == scribe_request(_pending_requests, w, f, req, db_up)
    IN  /\ calls < MaxCalls
        /\ calls' = calls + 1
        /\ flow_request' = [flow_request EXCEPT ![f] = req]
        /\ redis_stream' = b.strm
        /\ flow_metadata' = [flow_metadata EXCEPT ![f] = b.entry_id]
        /\ propagated' = IF b.raised THEN {"buffer"} ELSE {}
        /\ _pending_requests' = s.store
        /\ conn' = s.w.conn
        /\ conversations' = s.w.conversations
        /\ messages' = s.w.messages
        /\ uuid_count' = s.w.uuid_count
        /\ pending_flows' = langfuse_request(pending_flows, f, req)
        /\ lf_records' = lf_records
        /\ last' = AddonEvent("request", f, req.content)
        /\ UNCHANGED <<db_up, lf_up, redis_up, nf_vars, sse_vars, ex_vars, quota_csv>>

\* the proxy dispatches the response event of flow f to the three addons
AddonsResponse(f, resp) ==
    LET w == World(conn, conversations, messages, uuid_count)
        req == flow_request[f]
        b == buffer_response(redis_stream, flow_metadata[f], f, req, resp, redis_up)
        s == scribe_response(_pending_requests, w, f, req, resp, db_up)
        l == langfuse_response(pending_flows, lf_records, f, req, resp, lf_up)
    IN  /\ calls < MaxCalls
        /\ req # NoRequest
        /\ calls' = calls + 1
        /\ flow_request' = flow_request
        /\ redis_stream' = b.strm
        /\ flow_metadata' = [flow_metadata EXCEPT ![f] = b.entry_id]
        /\ propagated' = IF b.raised THEN {"buffer"} ELSE {}
        /\ _pending_requests' = s.store
        /\ conn' = s.w.conn
        /\ conversations' = s.w.conversations
        /\ messages' = s.w.messages
        /\ uuid_count' = s.w.uuid_count
        /\ pending_flows' = l.store
        /\ lf_records' = l.records
        /\ last' = AddonEvent("response", f, resp)
        /\ UNCHANGED <<db_up, lf_up, redis_up, nf_vars, sse_vars, ex_vars, quota_csv>>

\* Redis goes down or comes back
RedisChanges ==
    /\ calls < MaxCalls
    /\ calls' = calls + 1
    /\ redis_up' = ~redis_up
    /\ last' = [NoEvent EXCEPT !.hook = "redis"]
    /\ UNCHANGED <<flow_request, scribe_vars, langfuse_vars, redis_stream, flow_metadata>>
    /\ UNCHANGED <<db_up, lf_up, propagated, nf_vars, sse_vars, ex_vars, quota_csv>>

AddonsNext ==
    \/ \E f \in Flows, req \in AddonRequests : AddonsRequest(f, req)
    \/ \E f \in Flows, resp \in AddonResponses : AddonsResponse(f, resp)
    \/ PostgresChanges
    \/ LangfuseChanges
    \/ RedisChanges

SpecAddons == AddonsInit /\ [][AddonsNext]_vars

----------------------------------------------------------------------------
(* Requests whose body is a JSON object with and without members, and their *)
(* responses, with every sink reachable or not from the start.              *)

MatchRequests ==
    { Request(TRUE, Str("c1"), JsonDoc(ChatBody(FALSE))),
      Request(TRUE, Str("c1"), JsonDoc(EmptyObj)) }

MatchNext ==
    \/ \E f \in Flows, req \in MatchRequests : AddonsRequest(f, req)
    \/ \E f \in Flows, resp \in AddonResponses : AddonsResponse(f, resp)

SpecMatch == AddonsInit /\ [][MatchNext]_vars

----------------------------------------------------------------------------
(* Sink calls that do not return at once.  The hooks are plain functions    *)
(* (def, not async def) that call r.xadd, cursor.execute and                *)
(* langfuse.flush inline and without a timeout; mitmproxy runs such a hook  *)
(* to its end before it dispatches the next event.                          *)

\* the proxy has dispatched a hook of flow f and the hook waits in a sink
\* call that has not returned
SinkBlocks(f) ==
    /\ last.hook # "blocked"
    /\ calls < MaxCalls
    /\ calls' = calls + 1
    /\ last' = [NoEvent EXCEPT !.hook = "blocked", !.flow = f]
    /\ UNCHANGED <<flow_request, scribe_vars, langfuse_vars, buffer_vars, db_up, lf_up>>
    /\ UNCHANGED <<quota_csv, propagated, nf_vars, sse_vars, ex_vars>>

\* no hook of another flow is waiting in a sink call
LoopFreeFor(f) == last.hook = "blocked" => last.flow = f

\* the request hooks of flow f run to their end: at once, or when the sink
\* call they waited in has returned
BlockingRequest(f, req) == LoopFreeFor(f) /\ AddonsRequest(f, req)

\* the response hooks of flow f run to their end
BlockingResponse(f, resp) == LoopFreeFor(f) /\ AddonsResponse(f, resp)

BlockingNext ==
    \/ \E f \in Flows : SinkBlocks(f)
    \/ \E f \in Flows, req \in AddonRequests : BlockingRequest(f, req)
    \/ \E f \in Flows, resp \in AddonResponses : BlockingResponse(f, resp)

SpecBlocking == AddonsInit /\ [][BlockingNext]_vars

----------------------------------------------------------------------------
(* The correlation stores: scribe_logger._pending_requests and              *)
(* LangfuseLogger.pending_flows.                                            *)

\* this step is the hook `hook` of flow f
Ran(hook, f) == calls' = calls + 1 /\ last'.hook = hook /\ last'.flow = f

\* both request hooks register an entry for a request like req
Registers(req) == req.route /\ req.content.kind = "json" /\ IsDict(req.content.val)

\* entry is the context ScribeLogger.request keeps of req
IsContextOf(entry, req) ==
    /\ entry.messages = Get(req.content.val, "messages", List(<<>>))
    /\ entry.is_streaming = Get(req.content.val, "stream", Bool(FALSE))
    /\ IF req.conv = Null THEN entry.conv_uuid.j = "uuid" ELSE entry.conv_uuid = req.conv

\* flow g has the same entry, or none, in both stores
SameEntry(before, after, g) ==
    /\ (g \in DOMAIN after) = (g \in DOMAIN before)
    /\ g \in DOMAIN before => after[g] = before[g]

\* the rows of scribe.messages with the given role
Rows(role) == {n \in 1..Len(messages) : messages[n].role = role}

\* the generations Langfuse received for flow f
Generations(f) == {n \in 1..Len(lf_records) : lf_records[n].flow_id = f}

\* C1: an entry is consumed by at most one response hook.  After a response
\* hook of flow f on the /v1/messages route neither store holds an entry for
\* f, so a second response without a request in between finds none; and a
\* response hook that finds none returns at once: it touches neither the
\* connection nor the tables and sends no generation.
C1_ConsumedAtMostOnce ==
    [][\A f \in Flows :
          Ran("response", f) /\ flow_request[f].route =>
              /\ f \notin DOMAIN _pending_requests'
              /\ f \notin DOMAIN pending_flows'
              /\ f \notin DOMAIN _pending_requests =>
                    <<conn, conversations, messages, uuid_count>>' =
                        <<conn, conversations, messages, uuid_count>>
              /\ f \notin DOMAIN pending_flows => lf_records' = lf_records]_vars

\* a response was recorded by both addons and then a second response of the
\* same flow found nothing and left the single row and generation alone
C1_Witness ==
    /\ last.hook = "response"
    /\ ~last.scribe_found
    /\ ~last.langfuse_found
    /\ flow_request[last.flow].route
    /\ Cardinality(Rows("assistant")) = 1
    /\ Cardinality(Generations(last.flow)) = 1
    /\ Len(lf_records) = 1

\* C2: a store holds at most one entry per flow id, and a put replaces.
\* The keys of both stores are flow ids, each mapped to one entry.  After a
\* request hook that registers, the entry of its flow is the context of that
\* request, whatever entry the flow had before, and the entries of all other
\* flows are as they were.
C2_PutReplaces ==
    [][/\ DOMAIN _pending_requests' \subseteq Flows
       /\ DOMAIN pending_flows' \subseteq Flows
       /\ \A f \in Flows :
             Ran("request", f) /\ Registers(flow_request'[f]) =>
                 /\ f \in DOMAIN _pending_requests'
                 /\ IsContextOf(_pending_requests'[f], flow_request'[f])
                 /\ f \in DOMAIN pending_flows'
                 /\ pending_flows'[f] = flow_request'[f].content.val
                 /\ \A g \in Flows \ {f} :
                       /\ SameEntry(_pending_requests, _pending_requests', g)
                       /\ SameEntry(pending_flows, pending_flows', g)]_vars

\* a flow that had an entry in both stores registered again, with a
\* conversation id generated for this request, so the entry it had is not the
\* one it has now; another flow holds an entry too
C2_Witness ==
    /\ last.hook = "request"
    /\ last.scribe_found
    /\ last.langfuse_found
    /\ last.flow \in DOMAIN _pending_requests
    /\ _pending_requests[last.flow].conv_uuid.j = "uuid"
    /\ \E g \in Flows \ {last.flow} :
          g \in DOMAIN _pending_requests /\ g \in DOMAIN pending_flows

\* C3: flows do not interfere.  A hook of flow f leaves the entries of every
\* other flow in both stores as they were.  An entry a store holds for a flow
\* whose request registers is the context of that flow's own request.  A
\* response hook that records does so from the entry of its own flow: the
\* generation carries that flow's request body as input, and the assistant
\* row goes to the conversation of that flow's entry.
C3_FlowsIndependent ==
    [][\A f \in Flows :
          /\ Ran("request", f) \/ Ran("response", f) =>
                \A g \in Flows \ {f} :
                    /\ SameEntry(_pending_requests, _pending_requests', g)
                    /\ SameEntry(pending_flows, pending_flows', g)
          /\ f \in DOMAIN _pending_requests' /\ Registers(flow_request'[f]) =>
                IsContextOf(_pending_requests'[f], flow_request'[f])
          /\ f \in DOMAIN pending_flows' /\ Registers(flow_request'[f]) =>
                pending_flows'[f] = flow_request'[f].content.val
          /\ Ran("response", f) /\ lf_records' # lf_records =>
                /\ f \in DOMAIN pending_flows
                /\ lf_records' = Append(lf_records, lf_records'[Len(lf_records')])
                /\ lf_records'[Len(lf_records')].flow_id = f
                /\ lf_records'[Len(lf_records')].input = pending_flows[f]
          /\ Ran("response", f) /\ messages' # messages =>
                /\ f \in DOMAIN _pending_requests
                /\ messages' = Append(messages, messages'[Len(messages')])
                /\ messages'[Len(messages')].role = "assistant"
                /\ conversations'[messages'[Len(messages')].conversation_id] =
                       _pending_requests[f].conv_uuid]_vars

\* two flows of the same conversation registered different requests; the
\* response of one took its entry from both stores and the other flow's
\* entries are still there
C3_Witness ==
    /\ last.hook = "response"
    /\ last.scribe_found
    /\ last.langfuse_found
    /\ last.flow \notin DOMAIN _pending_requests
    /\ last.flow \notin DOMAIN pending_flows
    /\ \E g \in Flows \ {last.flow} :
          /\ flow_request[g].conv = Str("c1")
          /\ flow_request[last.flow].conv = Str("c1")
          /\ flow_request[g].content # flow_request[last.flow].content
          /\ g \in DOMAIN _pending_requests
          /\ IsContextOf(_pending_requests[g], flow_request[g])
          /\ g \in DOMAIN pending_flows
          /\ pending_flows[g] = flow_request[g].content.val

----------------------------------------------------------------------------
(* The noise filter applied to texts, and again to its own output.          *)

\* what the input texts are concatenated from: the markers of each tag, a
\* letter, a blank and a newline
InputPieces ==
    {open_tag(NOISE_TAGS[k]) : k \in 1..Len(NOISE_TAGS)}
        \cup {close_tag(NOISE_TAGS[k]) : k \in 1..Len(NOISE_TAGS)}
        \cup {<<"a">>, <<" ">>, <<"\n">>}

RECURSIVE Texts(_)
Texts(n) ==
    IF n = 0 THEN {<<>>}
    ELSE Texts(n - 1) \cup {t \o p : t \in Texts(n - 1), p \in InputPieces}

NfInit ==
    /\ nf_text \in Texts(MaxPieces)
    /\ nf_hist = <<nf_text>>
    /\ nf_steps = <<>>
    /\ SseIdle
    /\ ExIdle
    /\ HooksIdle

\* a caller applies _strip_noise_tags to the current text
StripNoise ==
    /\ Len(nf_hist) < 3
    /\ nf_steps' = StripSteps(nf_text, Len(NOISE_TAGS))
    /\ nf_text' = _strip_noise_tags(nf_text)
    /\ nf_hist' = Append(nf_hist, nf_text')
    /\ UNCHANGED <<sse_vars, ex_vars, hook_vars>>

NfNext == StripNoise

SpecNoise == NfInit /\ [][NfNext]_vars

----------------------------------------------------------------------------
(* The two SSE parsers applied to response bodies.                          *)

SseLines ==
    { OtherLine, UndecodableLine, DoneLine, BadJsonLine,
      TextDelta(<<"a">>), TextDelta(<<"b">>),
      DataLine(Obj([type |-> Str("content_block_delta"),
                    delta |-> Obj([type |-> Str("input_json_delta"),
                                   partial_json |-> Text(<<"a">>)])])),
      DataLine(Obj([type |-> Str("content_block_delta"),
                    delta |-> Obj([type |-> Str("text_delta"), text |-> Null])])),
      DataLine(Obj([type |-> Str("content_block_delta"), delta |-> Text(<<"a">>)])),
      MessageStart(UsageIn10), MessageStart(UsageCache),
      MessageDelta(UsageOut5), MessageDelta(UsageIn3),
      MessageDelta(Obj([output_tokens |-> Null])),
      DataLine(Obj([type |-> Str("content_block_delta"),
                    delta |-> Obj([type |-> Str("text_delta")])])),
      DataLine(Obj([type |-> Str("message_stop")])),
      DataLine(EmptyObj),
      DataLine(List(<<>>)) }

RECURSIVE Bodies(_)
Bodies(n) ==
    IF n = 0 THEN {<<>>}
    ELSE Bodies(n - 1) \cup {Append(b, l) : b \in Bodies(n - 1), l \in SseLines}

SseInit ==
    /\ sse_body \in Bodies(MaxLines)
    /\ sse_pos = 0
    /\ sse_state = SseStart
    /\ sse_result = NotYet
    /\ scribe_result = NotYet
    /\ NfIdle
    /\ ExIdle
    /\ HooksIdle

\* parse_sse_stream takes the next line of the decoded body
ParseSseLine ==
    /\ sse_result = NotYet
    /\ ~sse_state.raised
    /\ sse_pos < Len(sse_body)
    /\ sse_pos' = sse_pos + 1
    /\ sse_state' = parse_sse_line(sse_state, DecodeReplace(sse_body)[sse_pos + 1])
    /\ UNCHANGED <<sse_body, sse_result, scribe_result>>
    /\ UNCHANGED <<nf_vars, ex_vars, hook_vars>>

\* parse_sse_stream returns, or an exception leaves it
ParseSseReturn ==
    /\ sse_result = NotYet
    /\ sse_state.raised \/ sse_pos = Len(sse_body)
    /\ sse_result' = sse_return(sse_state)
    /\ UNCHANGED <<sse_body, sse_pos, sse_state, scribe_result>>
    /\ UNCHANGED <<nf_vars, ex_vars, hook_vars>>

\* _parse_sse_response runs on the same body
ScribeParseSse ==
    /\ scribe_result = NotYet
    /\ scribe_result' = _parse_sse_response(sse_body)
    /\ UNCHANGED <<sse_body, sse_pos, sse_state, sse_result>>
    /\ UNCHANGED <<nf_vars, ex_vars, hook_vars>>

SseNext == ParseSseLine \/ ParseSseReturn \/ ScribeParseSse

SpecSSE == SseInit /\ [][SseNext]_vars

----------------------------------------------------------------------------
(* The two text extractors applied to content values.                       *)

\* the elements a content array is drawn from: text blocks (one with
\* leading whitespace, two that open and close a noise block across block
\* boundaries), a text block without text and one with a null text, blocks of
\* other types, a block without type, and elements that are no blocks
ContentElements ==
    { TextBlock(<<"a">>),
      TextBlock(<<" ", "b">>),
      TextBlock(open_tag(NOISE_TAGS[1]) \o <<"x">>),
      TextBlock(close_tag(NOISE_TAGS[1])),
      Obj([type |-> Str("text")]),
      Obj([type |-> Str("text"), text |-> Null]),
      Obj([type |-> Str("tool_use"), id |-> Str("t1")]),
      Obj([type |-> Str("tool_result"), content |-> Text(<<"r">>)]),
      Obj([text |-> Text(<<"t">>)]),
      Text(<<"s">>),
      Num(5),
      Null }

RECURSIVE ContentArrays(_)
ContentArrays(n) ==
    IF n = 0 THEN {<<>>}
    ELSE ContentArrays(n - 1) \cup {Append(a, e) : a \in ContentArrays(n - 1), e \in ContentElements}

\* content values: arrays of up to MaxBlocks elements, plain texts, and
\* values that are neither
Contents ==
    {List(a) : a \in ContentArrays(MaxBlocks)}
        \cup {Text(<<>>), Text(<<"h", "i">>), Text(<<" ", "a", "\n">>), Null, Num(5), EmptyObj}

ExInit ==
    /\ ex_content \in Contents
    /\ ex_scribe = TextResult(<<>>)
    /\ ex_langfuse = TextResult(<<>>)
    /\ ex_done = FALSE
    /\ NfIdle
    /\ SseIdle
    /\ HooksIdle

\* both extractors are applied to the content
Extract ==
    /\ ~ex_done
    /\ ex_done' = TRUE
    /\ ex_scribe' = _extract_text_from_content(ex_content)
    /\ ex_langfuse' = langfuse_extract(ex_content)
    /\ UNCHANGED <<ex_content, nf_vars, sse_vars, hook_vars>>

ExNext == Extract

SpecExtract == ExInit /\ [][ExNext]_vars

\* C15: a response hook for a flow whose id has no pending entry in an
\* addon's store (never registered, or already consumed) leaves that store
\* as it is, writes no row and sends no generation, and does not touch the
\* connection: nothing that could raise is attempted.
C15_MissEmitsNothing ==
    [][\A f \in Flows :
          Ran("response", f)
              => /\ ~last'.scribe_found
                     => UNCHANGED <<_pending_requests, conn, conversations, messages, uuid_count>>
                 /\ ~last'.langfuse_found
                     => UNCHANGED <<pending_flows, lf_records>>]_vars

\* a response came for a flow whose entry had been consumed, or whose request
\* registered none, while the sinks held records and another flow's entry
\* was pending
C15_Witness ==
    /\ last.hook = "response"
    /\ flow_request[last.flow].route
    /\ ~last.scribe_found
    /\ ~last.langfuse_found
    /\ DOMAIN _pending_requests # {}
    /\ DOMAIN pending_flows # {}
    /\ Rows("human") # {}
    /\ lf_records # <<>>

\* C16: the correlation stores are bounded by time-based eviction: an entry
\* whose response has not arrived within the time-to-live is evicted, so the
\* first hook that runs after a long time has passed leaves no entry of any
\* other flow behind in either store.
C16_StaleEntriesEvicted ==
    [][\A f \in Flows :
          (last.hook = "clock" /\ (Ran("request", f) \/ Ran("response", f)))
              => \A g \in Flows \ {f} :
                     /\ g \notin DOMAIN _pending_requests'
                     /\ g \notin DOMAIN pending_flows']_vars

\* the text holds a block of a configured noise tag: an opening marker with
\* a closing marker of the same tag after it
HasNoiseBlock(t) ==
    \E k \in 1..Len(NOISE_TAGS) :
        /\ find(t, open_tag(NOISE_TAGS[k])) # -1
        /\ rfind(t, close_tag(NOISE_TAGS[k])) > find(t, open_tag(NOISE_TAGS[k]))

\* C17: whether the request asked for a stream or not, the text of a matched
\* response goes through the noise filter before the record is built: no
\* assistant row written by the relational sink holds a noise block.
C17_NoNoiseBlockInRecords ==
    \A n \in Rows("assistant") : ~HasNoiseBlock(messages[n].content)

\* C18: no hook of any addon lets an exception escape to the proxy,
\* whatever the request body, the response body and the headers are.
C18_NoHookPropagates == propagated = {}

\* the request carries a user message the relational sink records
HasHumanMessage(req) ==
    /\ Registers(req)
    /\ Truthy(Get(req.content.val, "messages", Null))

\* C19: losing the store degrades to a no-op.  While PostgreSQL is
\* unreachable a hook writes no row; the first hook after it has become
\* reachable again operates normally: a request with a user message gets its
\* row and the instance holds an open connection afterwards.
C19_ConnectivityLossIsNoOp ==
    [][\A f \in Flows :
          /\ ((Ran("request", f) \/ Ran("response", f)) /\ ~db_up)
                => UNCHANGED <<conversations, messages>>
          /\ (Ran("request", f) /\ last.hook = "postgres" /\ db_up
                  /\ HasHumanMessage(flow_request'[f]))
                => /\ Len(messages') = Len(messages) + 1
                   /\ messages'[Len(messages')].role = "human"
                   /\ conn' = "open"]_vars

\* C20: a slow or unreachable sink cannot stall the interception path:
\* while the hook of one flow waits in a sink call, the request hooks of
\* every other flow can still run to their end.
C20_BlockedSinkDoesNotStall ==
    (last.hook = "blocked" /\ calls < MaxCalls)
        => \A g \in Flows \ {last.flow} :
               ENABLED (\E req \in AddonRequests : BlockingRequest(g, req))

----------------------------------------------------------------------------
(* Claims about the sinks (checked under SpecAddons).                       *)

\* the last row of a table or entry of a stream
Last(rows) == rows[Len(rows)]

\* a response body both correlating addons can parse
WellFormedResponse(resp) == resp.kind = "json" /\ IsDict(resp.val)

\* the request entry of flow f was appended to the stream
StreamGotRequest(f) ==
    /\ Len(redis_stream') = Len(redis_stream) + 1
    /\ Last(redis_stream').type = "request"
    /\ Last(redis_stream').flow_id = f
    /\ Last(redis_stream').body = flow_request'[f].content

\* the response entry of flow f was appended to the stream
StreamGotResponse(f) ==
    /\ Len(redis_stream') = Len(redis_stream) + 1
    /\ Last(redis_stream').type = "response"
    /\ Last(redis_stream').flow_id = f
    /\ Last(redis_stream').body = last'.content

\* a statement of the hook succeeds: the server is up and the session of the
\* instance's connection, if it has one, is alive
PostgresWrites == db_up /\ conn # "broken"

\* the human message of the request was inserted
TableGotHuman ==
    /\ Len(messages') = Len(messages) + 1
    /\ Last(messages').role = "human"
    /\ Last(messages').content = HelloText

\* the assistant message of the response is in the table (an INSERT of a
\* message id that is already stored is a no-op)
TableGotAssistant ==
    \E n \in 1..Len(messages') :
        /\ messages'[n].role = "assistant"
        /\ messages'[n].content = ReplyText
        /\ messages'[n].uuid = Get(last'.content.val, "id", Null)

\* the generation of flow f was sent to Langfuse
LangfuseGotGeneration(f) ==
    /\ Len(lf_records') = Len(lf_records) + 1
    /\ Last(lf_records').flow_id = f
    /\ Last(lf_records').output = ReplyText

\* C12: sink failures are isolated.  For every exchange and every subset of
\* sinks that are unreachable, each sink that is reachable still gets the
\* record of the flow: whether a sink gets it depends on that sink alone.
\* No hook lets the failure of its sink escape as an exception.
C12_SinkFailuresIsolated ==
    [][\A f \in Flows :
          /\ Ran("request", f) \/ Ran("response", f) => propagated' = {}
          /\ Ran("request", f) /\ Registers(flow_request'[f]) =>
                /\ redis_up => StreamGotRequest(f)
                /\ PostgresWrites => TableGotHuman
          /\ (/\ Ran("response", f)
              /\ Registers(flow_request[f])
              /\ last'.scribe_found /\ last'.langfuse_found
              /\ WellFormedResponse(last'.content)) =>
                /\ redis_up => StreamGotResponse(f)
                /\ PostgresWrites => TableGotAssistant
                /\ lf_up => LangfuseGotGeneration(f)]_vars

\* an exchange with Redis and PostgreSQL unreachable throughout: Langfuse
\* got the generation, and no hook raised
C12_Witness ==
    /\ last.hook = "response"
    /\ last.scribe_found /\ last.langfuse_found
    /\ WellFormedResponse(last.content)
    /\ ~redis_up /\ ~db_up /\ lf_up
    /\ redis_stream = <<>>
    /\ messages = <<>>
    /\ conn = "none"
    /\ Len(lf_records) = 1
    /\ lf_records[1].flow_id = last.flow
    /\ propagated = {}

----------------------------------------------------------------------------
(* Claims about the noise filter (checked under SpecNoise).                 *)

\* the applications recorded in nf_hist: k-th input nf_hist[k], output nf_hist[k+1]
Applications == 1..(Len(nf_hist) - 1)

HasOpen(t, tag) == find(t, open_tag(tag)) # -1

HasClose(t, tag) == find(t, close_tag(tag)) # -1

NoOpeningMarker(t) == \A k \in 1..Len(NOISE_TAGS) : ~HasOpen(t, NOISE_TAGS[k])

\* no leading or trailing whitespace and no run of three or more newlines
Normalized(t) ==
    /\ t # <<>> => ~IsSpace(t[1]) /\ ~IsSpace(t[Len(t)])
    /\ \A i \in 1..(Len(t) - 2) : ~(t[i] = "\n" /\ t[i + 1] = "\n" /\ t[i + 2] = "\n")

NonSpace(t) == SelectSeq(t, LAMBDA c : ~IsSpace(c))

\* C8: NoiseFilter is idempotent: applying _strip_noise_tags to its own
\* output returns that output, for every input text (nested, repeated and
\* out-of-order markers included).
C8_StripIdempotent == Len(nf_hist) = 3 => nf_hist[3] = nf_hist[2]

\* C9 as stated: a text with no opening marker of any configured tag is
\* returned exactly unchanged, whatever whitespace and newline runs it has.
C9_NoOpenIsIdentity ==
    \A k \in Applications : NoOpeningMarker(nf_hist[k]) => nf_hist[k + 1] = nf_hist[k]

\* C9 amended: a text with no opening marker of any configured tag is
\* returned with only its whitespace changed (leading and trailing whitespace
\* trimmed, runs of three or more newlines collapsed), and exactly unchanged
\* when it has no leading or trailing whitespace and no run of three or more
\* newlines.
C9_NoOpenIsIdentityUpToNormalization ==
    \A k \in Applications :
        NoOpeningMarker(nf_hist[k]) =>
            /\ Normalized(nf_hist[k]) => nf_hist[k + 1] = nf_hist[k]
            /\ NonSpace(nf_hist[k + 1]) = NonSpace(nf_hist[k])
            /\ Normalized(nf_hist[k + 1])
            /\ Len(nf_hist[k + 1]) <= Len(nf_hist[k])

\* C9 witness: the filter ran on a normalized text that has a closing marker
\* and a blank line but no opening marker, and on one that it had to trim.
C9_Witness ==
    /\ Len(nf_hist) = 3
    /\ NoOpeningMarker(nf_hist[1])
    /\ ~Normalized(nf_hist[1])
    /\ \E k \in 1..Len(NOISE_TAGS) : HasClose(nf_hist[1], NOISE_TAGS[k])
    /\ find(nf_hist[2], <<"\n", "\n">>) # -1
    /\ nf_hist[3] = nf_hist[2]

\* the tag of iteration k is malformed in the text that iteration k receives
Malformed(k) ==
    \/ HasOpen(nf_steps[k], NOISE_TAGS[k]) /\ ~HasClose(nf_steps[k], NOISE_TAGS[k])
    \/ HasClose(nf_steps[k], NOISE_TAGS[k]) /\ ~HasOpen(nf_steps[k], NOISE_TAGS[k])

\* C10: when a tag is malformed in the text its iteration receives (opening
\* marker without closing marker, or closing marker without opening marker),
\* that iteration returns the text unchanged: nothing is removed for that tag.
C10_MalformedTagUnchanged ==
    \A k \in 1..(Len(nf_steps) - 1) : Malformed(k) => nf_steps[k + 1] = nf_steps[k]

\* C10 witness: one application in which the first tag has only its opening
\* marker and the second tag only its closing marker.
C10_Witness ==
    /\ Len(nf_steps) = Len(NOISE_TAGS) + 1
    /\ HasOpen(nf_steps[1], NOISE_TAGS[1]) /\ ~HasClose(nf_steps[1], NOISE_TAGS[1])
    /\ HasClose(nf_steps[2], NOISE_TAGS[2]) /\ ~HasOpen(nf_steps[2], NOISE_TAGS[2])
    /\ nf_steps[3] = nf_steps[1]

\* the text before the first opening marker of tag, trimmed
PrefixOf(t, tag) == strip(Slice(t, 0, find(t, open_tag(tag))))

\* the text after the end of the last closing marker of tag, trimmed
SuffixOf(t, tag) == strip(SliceFrom(t, rfind(t, close_tag(tag)) + Len(close_tag(tag))))

\* what iteration k returns is the trimmed prefix and the trimmed suffix,
\* joined by a blank line when both are non-empty
KeepsPrefixAndSuffix(k) ==
    nf_steps[k + 1] =
        Combine(PrefixOf(nf_steps[k], NOISE_TAGS[k]), SuffixOf(nf_steps[k], NOISE_TAGS[k]))

\* iteration k removed the span: what it returns is no longer than the text
\* without the two markers that delimit the span, plus the joining blank line
RemovesSpan(k) ==
    Len(nf_steps[k + 1]) + Len(open_tag(NOISE_TAGS[k])) + Len(close_tag(NOISE_TAGS[k]))
        <= Len(nf_steps[k]) + 2

\* C11: when the text an iteration receives contains both markers of its
\* tag, the iteration removes everything from the first opening marker
\* through the end of the last closing marker and returns the trimmed prefix
\* and the trimmed suffix, joined by one blank line if both are non-empty,
\* otherwise whichever is non-empty or the empty text; for every relative
\* position of the two markers.
C11_SpanRemovedPrefixSuffixKept ==
    \A k \in 1..(Len(nf_steps) - 1) :
        HasOpen(nf_steps[k], NOISE_TAGS[k]) /\ HasClose(nf_steps[k], NOISE_TAGS[k]) =>
            KeepsPrefixAndSuffix(k) /\ RemovesSpan(k)

----------------------------------------------------------------------------
(* Claims about the SSE reconstruction (checked under SpecSSE).             *)

IsEvent(line, type) ==
    line.kind = "json" /\ IsDict(line.val) /\ StrEq(Get(line.val, "type", Null), type)

\* a content_block_delta event whose delta is of type text_delta
IsTextDelta(line) ==
    /\ IsEvent(line, "content_block_delta")
    /\ IsDict(Get(line.val, "delta", Null))
    /\ StrEq(Get(Get(line.val, "delta", Null), "type", Null), "text_delta")

\* the delta.text of a text_delta event
DeltaText(line) == Get(Get(line.val, "delta", Null), "text", Text(<<>>))

\* a line of a well-formed SSE body: not a data line, the [DONE] sentinel, or
\* an event object whose payload has the documented shape
WellFormedLine(line) ==
    \/ line.kind \in {"other", "done"}
    \/ /\ line.kind = "json"
       /\ IsDict(line.val)
       /\ IsEvent(line, "content_block_delta") => IsDict(Get(line.val, "delta", Null))
       /\ IsTextDelta(line) => DeltaText(line).j = "text"
       /\ IsEvent(line, "message_start") =>
              /\ IsDict(Get(line.val, "message", Null))
              /\ IsDict(Get(Get(line.val, "message", Null), "usage", EmptyObj))
       /\ IsEvent(line, "message_delta") => IsDict(Get(line.val, "usage", EmptyObj))

WellFormedBody(body) == \A n \in 1..Len(body) : WellFormedLine(body[n])

\* the delta.text values of the text_delta events of a body, in line order
RECURSIVE TextDeltasOf(_)
TextDeltasOf(body) ==
    IF body = <<>> THEN <<>>
    ELSE (IF IsTextDelta(Head(body)) THEN DeltaText(Head(body)).v ELSE <<>>)
             \o TextDeltasOf(Tail(body))

\* C4: for every well-formed SSE body both reconstructions return the
\* concatenation, in line order, of the delta.text of exactly the
\* content_block_delta events of type text_delta; other events add nothing.
C4_TextIsConcatenationOfTextDeltas ==
    WellFormedBody(sse_body) =>
        /\ sse_result.status # "notyet" =>
               /\ sse_result.status = "returned"
               /\ sse_result.text = TextDeltasOf(sse_body)
        /\ scribe_result.status # "notyet" =>
               /\ scribe_result.status = "returned"
               /\ scribe_result.text = TextDeltasOf(sse_body)

\* C4 witness: two text deltas with another event between them were
\* reconstructed by both parsers.
C4_Witness ==
    /\ WellFormedBody(sse_body)
    /\ Len(sse_body) = 3
    /\ IsTextDelta(sse_body[1]) /\ IsTextDelta(sse_body[3])
    /\ sse_body[2].kind = "json" /\ ~IsTextDelta(sse_body[2])
    /\ sse_result.status = "returned" /\ sse_result.text = <<"a", "b">>
    /\ scribe_result.status = "returned" /\ scribe_result.text = <<"a", "b">>

UsageFields ==
    {"input_tokens", "output_tokens", "cache_creation_input_tokens", "cache_read_input_tokens"}

\* the value of a field of the usage being built, null when it is not set
UsageField(usage, k) == IF IsDict(usage) THEN Get(usage, k, Null) ELSE Null

\* the usage object of the event of a line, the empty object when it has none
EventUsage(line) ==
    IF IsEvent(line, "message_delta") THEN Get(line.val, "usage", EmptyObj)
    ELSE IF IsEvent(line, "message_start") /\ IsDict(Get(line.val, "message", Null))
         THEN Get(Get(line.val, "message", Null), "usage", EmptyObj)
    ELSE EmptyObj

\* C5: usage merging is monotonic over the event sequence: a field that
\* holds a non-null value is never set back to null by a later event, and an
\* event whose usage object lacks a field leaves that field as it was.
C5_UsageMergeMonotonic ==
    [][sse_pos' = sse_pos + 1 =>
         \A k \in UsageFields :
            /\ UsageField(sse_state.usage, k).j # "null" =>
                   UsageField(sse_state'.usage, k).j # "null"
            /\ LET u == EventUsage(DecodeReplace(sse_body)[sse_pos'])
               IN  (IsDict(u) /\ k \notin DOMAIN u.v) =>
                       UsageField(sse_state'.usage, k) = UsageField(sse_state.usage, k)
      ]_vars

MessageStarts(body) == {n \in 1..Len(body) : IsEvent(body[n], "message_start")}

MessageDeltas(body) == {n \in 1..Len(body) : IsEvent(body[n], "message_delta")}

\* the body has one message_start, whose usage is {input_tokens: i}, and one
\* message_delta, whose usage is {output_tokens: o}
StartAndDelta(body, i, o) ==
    /\ WellFormedBody(body)
    /\ \E n \in 1..Len(body) :
          MessageStarts(body) = {n} /\ body[n] = MessageStart(Obj([input_tokens |-> Num(i)]))
    /\ \E n \in 1..Len(body) :
          MessageDeltas(body) = {n} /\ body[n] = MessageDelta(Obj([output_tokens |-> Num(o)]))

TokenCounts == {0, 5, 10}

\* C6: for a stream whose message_start carries usage {input_tokens: i} and
\* whose message_delta carries usage {output_tokens: o}, the reconstruction
\* returns the text of its text deltas and a usage whose input_tokens is i,
\* whose output_tokens is o, and in which no other field holds a value.
C6_UsageFromStartAndDelta ==
    \A i, o \in TokenCounts :
        (sse_result.status # "notyet" /\ StartAndDelta(sse_body, i, o)) =>
            /\ sse_result.status = "returned"
            /\ sse_result.text = TextDeltasOf(sse_body)
            /\ IsDict(sse_result.usage)
            /\ Get(sse_result.usage, "input_tokens", Null) = Num(i)
            /\ Get(sse_result.usage, "output_tokens", Null) = Num(o)
            /\ \A k \in DOMAIN sse_result.usage.v :
                   k \notin {"input_tokens", "output_tokens"} => sse_result.usage.v[k] = Null

\* C6 witness: message_start {input_tokens: 10}, a text delta, message_delta
\* {output_tokens: 5}, in that order, were reconstructed.
C6_Witness ==
    /\ sse_result.status = "returned"
    /\ StartAndDelta(sse_body, 10, 5)
    /\ Len(sse_body) = 3
    /\ IsEvent(sse_body[1], "message_start") /\ IsTextDelta(sse_body[2])
    /\ sse_result.text = <<"a">>

\* a body without the lines of the given kinds
RECURSIVE Without(_, _)
Without(body, kinds) ==
    IF body = <<>> THEN <<>>
    ELSE (IF Head(body).kind \in kinds THEN <<>> ELSE <<Head(body)>>)
             \o Without(Tail(body), kinds)

\* C7: a data line that fails JSON parsing is skipped and is not fatal: each
\* reconstruction ends as it does on the same body with those lines removed.
\* (For parse_sse_stream the [DONE] sentinel is such a line; _parse_sse_response
\* drops the sentinel before parsing.)
C7_MalformedLinesSkipped ==
    /\ sse_result.status # "notyet" =>
           sse_result = parse_sse_stream(DecodeReplace(Without(sse_body, {"badjson", "done"})))
    /\ scribe_result.status # "notyet" =>
           scribe_result = _parse_sse_response(Without(sse_body, {"badjson"}))

\* C7 witness: a malformed data line stood between two text deltas and both
\* parsers returned the text of both.
C7_Witness ==
    /\ Len(sse_body) = 3
    /\ sse_body[2].kind = "badjson"
    /\ IsTextDelta(sse_body[1]) /\ IsTextDelta(sse_body[3])
    /\ sse_result.status = "returned" /\ sse_result.text = <<"b", "a">>
    /\ scribe_result.status = "returned" /\ scribe_result.text = <<"b", "a">>

----------------------------------------------------------------------------
(* Claims about content extraction (checked under SpecExtract).             *)

\* the content is a sequence of block objects
IsBlockSeq(content) ==
    /\ content.j = "list"
    /\ \A n \in 1..Len(content.v) : content.v[n].j = "obj"

IsTextBlock(block) ==
    /\ block.j = "obj"
    /\ "type" \in DOMAIN block.v
    /\ block.v.type = Str("text")

\* a text-typed block whose text is present and is no string
HasNoStringText(block) ==
    /\ IsTextBlock(block)
    /\ "text" \in DOMAIN block.v
    /\ block.v.text.j # "text"

\* the text of a text-typed block, a missing one or one that is no string
\* being empty
TextOfBlock(block) ==
    IF "text" \in DOMAIN block.v /\ block.v.text.j = "text" THEN block.v.text.v ELSE <<>>

\* the texts of the text-typed blocks among the first n elements, in
\* sequence order
RECURSIVE TextsOf(_, _)
TextsOf(blocks, n) ==
    IF n = 0 THEN <<>>
    ELSE TextsOf(blocks, n - 1)
             \o (IF IsTextBlock(blocks[n]) THEN TextOfBlock(blocks[n]) ELSE <<>>)

Concatenation == TextsOf(ex_content.v, Len(ex_content.v))

TextBlockCount == Cardinality({n \in 1..Len(ex_content.v) : IsTextBlock(ex_content.v[n])})

\* C13 as stated: over a sequence of blocks, the relational sink's and the
\* tracing sink's extraction both return the concatenation, in sequence
\* order, of the texts of the text-typed blocks.
C13_ReturnsConcatenation ==
    (ex_done /\ IsBlockSeq(ex_content))
        => /\ ex_scribe = TextResult(Concatenation)
           /\ ex_langfuse = TextResult(Concatenation)

\* C13 amended: over a sequence of blocks, both extractions raise when a
\* text-typed block carries a text that is no string; otherwise the tracing
\* sink's extraction returns the concatenation, in sequence order, of the
\* texts of the text-typed blocks, the relational sink's extraction returns
\* that concatenation passed through the noise filter, and both are empty
\* when the sequence has no text-typed block.
C13_ConcatenationThenFilter ==
    (ex_done /\ IsBlockSeq(ex_content))
        => IF \E n \in 1..Len(ex_content.v) : HasNoStringText(ex_content.v[n])
           THEN ex_scribe.raised /\ ex_langfuse.raised
           ELSE /\ ex_langfuse = TextResult(Concatenation)
                /\ ex_scribe = TextResult(_strip_noise_tags(Concatenation))
                /\ (TextBlockCount = 0
                        => ex_scribe = TextResult(<<>>) /\ ex_langfuse = TextResult(<<>>))

\* two text blocks and a block of another type have been extracted, and the
\* noise filter changed what the relational sink's extraction returns
C13_Witness ==
    /\ ex_done
    /\ IsBlockSeq(ex_content)
    /\ TextBlockCount = 2
    /\ Len(ex_content.v) = 3
    /\ ~ex_scribe.raised
    /\ ~ex_langfuse.raised
    /\ ex_langfuse.text = Concatenation
    /\ ex_scribe.text # ex_langfuse.text
    /\ ex_scribe.text # <<>>

\* C14: extraction never throws: for every content value, whatever its
\* elements, both extractions return a text and raise no error, and the
\* result is the one of the text-typed blocks alone, every other element
\* being omitted.
C14_ExtractionNeverThrows ==
    ex_done
        => /\ ~ex_scribe.raised
           /\ ~ex_langfuse.raised
           /\ ex_content.j = "list"
                  => /\ ex_langfuse.text = Concatenation
                     /\ ex_scribe.text = _strip_noise_tags(Concatenation)

----------------------------------------------------------------------------
(* Claims about what the hooks leave alone (checked under SpecAddons).      *)

----------------------------------------------------------------------------
(* Claims about message suppression (checked under SpecReply).              *)

\* the classification of the claim: an exact literal, a configured prefix,
\* or shorter than the minimum length without any of ? ! .
ClassifiedAsNoise(t) ==
    \/ t \in noise_exact
    \/ \E p \in noise_prefixes : Len(p) <= Len(t) /\ SubSeq(t, 1, Len(p)) = p
    \/ Len(t) < MinMessageLength /\ {n \in 1..Len(t) : t[n] \in {"?", "!", "."}} = {}

\* C22: a message is suppressed exactly when it is classified as noise, and
\* in both hooks the classification is applied to the text after the noise
\* tags were stripped and the result trimmed: no row of scribe.messages holds
\* a text whose stripped and trimmed form is classified as noise.
C22_SuppressionAfterStripping ==
    \A n \in 1..Len(messages) :
        /\ ~ClassifiedAsNoise(messages[n].content)
        /\ ~ClassifiedAsNoise(strip(_strip_noise_tags(messages[n].content)))

----------------------------------------------------------------------------
(* Claims about conversations and message rows (checked under Spec).        *)

\* a message row was appended by the step
RowAppended == Len(messages') = Len(messages) + 1

\* the uuid of the conversation the appended row belongs to
ConversationOfNewRow == conversations'[messages'[Len(messages')].conversation_id]

\* the value was used before the step: as the uuid of a conversation or of a
\* message, or as the conversation id of a pending entry
UsedBefore(u) ==
    \/ \E n \in 1..Len(conversations) : conversations[n] = u
    \/ \E n \in 1..Len(messages) : messages[n].uuid = u
    \/ \E g \in DOMAIN _pending_requests : _pending_requests[g].conv_uuid = u

\* C23: the conversation id of a flow is the x-conversation-id header when
\* the request carries one and otherwise an identifier generated for that
\* request and never used before; a row written by the request hook and the
\* row written by the response hook of the flow both belong to the
\* conversation with the id fixed at request time.
C23_ConversationIdFixedAtRequest ==
    [][\A f \in Flows :
          /\ (Ran("request", f) /\ Registers(flow_request'[f]))
                => /\ IF flow_request'[f].conv # Null
                      THEN _pending_requests'[f].conv_uuid = flow_request'[f].conv
                      ELSE /\ _pending_requests'[f].conv_uuid.j = "uuid"
                           /\ ~UsedBefore(_pending_requests'[f].conv_uuid)
                   /\ RowAppended => ConversationOfNewRow = _pending_requests'[f].conv_uuid
          /\ (Ran("response", f) /\ last'.scribe_found /\ RowAppended)
                => ConversationOfNewRow = _pending_requests[f].conv_uuid]_vars

\* the response of a flow whose request carried no header was recorded in the
\* conversation of a generated id that also holds the human message
C23_Witness ==
    /\ last.hook = "response"
    /\ last.scribe_found
    /\ flow_request[last.flow].conv = Null
    /\ \E h \in Rows("human"), a \in Rows("assistant") :
          /\ messages[h].conversation_id = messages[a].conversation_id
          /\ conversations[messages[a].conversation_id].j = "uuid"
          /\ a = Len(messages)

----------------------------------------------------------------------------
(* Claims about matching (checked under SpecMatch).                         *)

\* C24: every request whose hook stored an entry is matched when its
\* response arrives, an empty JSON object included: when the tracing addon
\* holds the request body of the flow (an object that did not ask for a
\* stream), the Langfuse client is reachable and the response is a JSON
\* document, the response hook sends the generation of the flow.
C24_StoredRequestIsMatched ==
    [][\A f \in Flows :
          (/\ Ran("response", f)
           /\ last'.langfuse_found
           /\ IsDict(pending_flows[f])
           /\ ~Truthy(Get(pending_flows[f], "stream", Null))
           /\ WellFormedResponse(last'.content)
           /\ lf_up)
              => LangfuseGotGeneration(f)]_vars

----------------------------------------------------------------------------
(* Further claims about the SSE reconstruction (checked under SpecSSE).     *)

\* a data line whose payload is valid JSON of an unexpected shape: no object,
\* an object of no recognized type, or a content_block_delta whose delta is
\* no object
UnexpectedShape(line) ==
    /\ line.kind = "json"
    /\ \/ ~IsDict(line.val)
       \/ /\ ~IsEvent(line, "content_block_delta")
          /\ ~IsEvent(line, "message_start")
          /\ ~IsEvent(line, "message_delta")
       \/ /\ IsEvent(line, "content_block_delta")
          /\ ~IsDict(Get(line.val, "delta", EmptyObj))

\* C25: a data line that cannot be used never aborts the remaining lines:
\* in a body whose lines are well-formed, fail JSON parsing, or carry valid
\* JSON of an unexpected shape, the unusable lines are ignored and both
\* reconstructions return the text deltas of all other lines.
C25_UnexpectedShapesIgnored ==
    (\A n \in 1..Len(sse_body) :
         \/ WellFormedLine(sse_body[n])
         \/ UnexpectedShape(sse_body[n])
         \/ sse_body[n].kind = "badjson")
        => /\ sse_result.status # "notyet" =>
                  /\ sse_result.status = "returned"
                  /\ sse_result.text = TextDeltasOf(sse_body)
           /\ scribe_result.status # "notyet" =>
                  /\ scribe_result.status = "returned"
                  /\ scribe_result.text = TextDeltasOf(sse_body)

----------------------------------------------------------------------------
(* Further claims about the noise filter (checked under SpecNoise).         *)

\* how often the character c occurs in t
Occurrences(t, c) == Cardinality({n \in 1..Len(t) : t[n] = c})

\* C26: the noise filter only removes: the result of an application is never
\* longer than its input, and no character other than whitespace occurs in
\* the result more often than in the input, whatever the order of the
\* markers in the input.
C26_FilterOnlyRemoves ==
    \A k \in Applications :
        /\ Len(nf_hist[k + 1]) <= Len(nf_hist[k])
        /\ \A n \in 1..Len(nf_hist[k + 1]) :
               IsSpace(nf_hist[k + 1][n])
                   \/ Occurrences(nf_hist[k + 1], nf_hist[k + 1][n])
                          <= Occurrences(nf_hist[k], nf_hist[k + 1][n])

\* C27: after the full pass (every configured tag in declared order, then
\* the newline normalization) the result holds no complete noise block: for
\* no configured tag an opening marker with its closing marker after it, be
\* it a block of an earlier tag that stripping a later tag exposed or formed.
C27_NoCompleteBlockLeft ==
    \A k \in Applications : ~HasNoiseBlock(nf_hist[k + 1])

----------------------------------------------------------------------------
(* Flows on and off the messages route, each with one request event, with   *)
(* every sink reachable or not from the start.                              *)

RouteRequests ==
    { Request(FALSE, Str("c1"), JsonDoc(ChatBody(FALSE))),
      Request(TRUE, Str("c1"), JsonDoc(ChatBody(FALSE))) }

\* the request event of a flow that had none yet
RouteRequest(f, req) == flow_request[f] = NoRequest /\ AddonsRequest(f, req)

RouteNext ==
    \/ \E f \in Flows, req \in RouteRequests : RouteRequest(f, req)
    \/ \E f \in Flows, resp \in AddonResponses : AddonsResponse(f, resp)

SpecRoute == AddonsInit /\ [][RouteNext]_vars

\* the stores and the sinks are as they were
SinksAndStoresUnchanged ==
    UNCHANGED <<_pending_requests, pending_flows, conn, conversations, messages,
                uuid_count, lf_records, redis_stream, flow_metadata>>

\* flow f got an entry in the store, or another one than it had
Registered(store, store_after, f) ==
    f \in DOMAIN store_after /\ (f \notin DOMAIN store \/ store_after[f] # store[f])

\* C28: a request or response hook of a flow whose path does not contain
\* /v1/messages registers no pending entry, removes none and writes to no
\* sink, and only a flow on the messages route is registered in a
\* correlation store.
C28_OffRouteHasNoEffect ==
    [][\A f \in Flows :
          /\ (Ran("request", f) \/ Ran("response", f)) /\ ~flow_request'[f].route
                => SinksAndStoresUnchanged
          /\ Registered(_pending_requests, _pending_requests', f) => flow_request'[f].route
          /\ Registered(pending_flows, pending_flows', f) => flow_request'[f].route]_vars

\* the response hooks ran for a flow off the route while another flow was
\* pending and every sink was reachable; the entry is still pending and the
\* sinks hold what the pending flow's request left
C28_Witness ==
    /\ last.hook = "response"
    /\ ~flow_request[last.flow].route
    /\ db_up /\ lf_up /\ redis_up
    /\ DOMAIN _pending_requests = Flows \ {last.flow}
    /\ DOMAIN pending_flows = Flows \ {last.flow}
    /\ Len(redis_stream) = NumFlows - 1
    /\ Len(messages) = NumFlows - 1
    /\ lf_records = <<>>

\* the rows of scribe.conversations with the uuid
ConversationsOf(u) == {n \in 1..Len(conversations) : conversations[n] = u}

\* C29: whatever the order of the request and response hooks of flows that
\* carry the same conversation id, scribe.conversations holds at most one row
\* per uuid, and the message rows of one conversation uuid all carry the
\* same conversation id, which is the id of that row.
C29_OneConversationPerUuid ==
    /\ \A n \in 1..Len(conversations) : ConversationsOf(conversations[n]) = {n}
    /\ \A n \in 1..Len(messages) :
           /\ messages[n].conversation_id \in 1..Len(conversations)
           /\ \A m \in 1..Len(messages) :
                  conversations[messages[m].conversation_id]
                          = conversations[messages[n].conversation_id]
                      => messages[m].conversation_id = messages[n].conversation_id

\* both flows carry the same x-conversation-id, the request hooks of both ran
\* and then the response hook of one: three rows in one conversation
C29_Witness ==
    /\ last.hook = "response"
    /\ last.scribe_found
    /\ \A f \in Flows : flow_request[f].conv = Str("c1")
    /\ ConversationsOf(Str("c1")) # {}
    /\ Cardinality(Rows("human")) >= NumFlows
    /\ Cardinality(Rows("assistant")) >= 1
    /\ \A n \in 1..Len(messages) : conversations[messages[n].conversation_id] = Str("c1")

----------------------------------------------------------------------------
(* Flows of one conversation that ask for a stream or not, and responses    *)
(* that repeat a message id: two JSON documents with the id msg_1 and       *)
(* different texts, and the SSE stream of the reply.                        *)

DedupResponses ==
    { JsonDoc(Obj([id |-> Str("msg_1"), content |-> List(<<TextBlock(ReplyText)>>)])),
      JsonDoc(Obj([id |-> Str("msg_1"), content |-> List(<<TextBlock(HelloText)>>)])),
      SseDoc(<<MessageStart(UsageIn10), TextDelta(ReplyText), MessageDelta(UsageOut5)>>) }

DedupNext ==
    \/ \E f \in Flows, req \in ReplyRequests : AddonsRequest(f, req)
    \/ \E f \in Flows, resp \in DedupResponses : AddonsResponse(f, resp)

SpecDedup == AddonsInit /\ [][DedupNext]_vars

\* the uuid is the uuid of a stored message row
StoredMessage(u) == \E n \in 1..Len(messages) : messages[n].uuid = u

\* the row the step appended has a generated uuid that nothing used before
NewRowHasFreshUuid == Last(messages').uuid.j = "uuid" /\ ~UsedBefore(Last(messages').uuid)

\* the response hook of a pending flow ran; streams says whether the flow's
\* request asked for a stream
RecordsResponse(f, streams) ==
    /\ Ran("response", f)
    /\ last'.scribe_found
    /\ Truthy(_pending_requests[f].is_streaming) = streams

\* C30: scribe.messages holds at most one row per uuid and a stored row
\* never changes; the non-streaming response of a pending flow whose message
\* id is already stored changes nothing; a row recorded without a supplied
\* uuid (by a request hook, or for a streamed response) has a fresh uuid, so
\* with PostgreSQL reachable a human message and a streamed reply get their
\* row even when an equal row is stored.
C30_InsertDeduplicatesByUuid ==
    [][/\ \A n, m \in 1..Len(messages') : messages'[n].uuid = messages'[m].uuid => n = m
       /\ SubSeq(messages', 1, Len(messages)) = messages
       /\ \A f \in Flows :
              /\ ( /\ RecordsResponse(f, FALSE)
                   /\ WellFormedResponse(last'.content)
                   /\ StoredMessage(Get(last'.content.val, "id", Null)) )
                    => messages' = messages
              /\ (Ran("request", f) \/ RecordsResponse(f, TRUE)) /\ RowAppended
                    => NewRowHasFreshUuid
              /\ Ran("request", f) /\ db_up => TableGotHuman
              /\ RecordsResponse(f, TRUE) /\ db_up /\ last'.content.kind = "sse"
                    => RowAppended /\ Last(messages').role = "assistant"]_vars

\* two flows of one conversation sent the same human message and got two
\* rows; both did not ask for a stream and were answered with the message id
\* msg_1, the second with another text, and the row of msg_1 keeps the first
C30_Witness ==
    /\ last.hook = "response"
    /\ last.scribe_found
    /\ WellFormedResponse(last.content)
    /\ Get(last.content.val, "content", Null) = List(<<TextBlock(HelloText)>>)
    /\ \E n \in Rows("assistant") :
           messages[n].uuid = Str("msg_1") /\ messages[n].content = ReplyText
    /\ Cardinality(Rows("assistant")) = 1
    /\ Cardinality(Rows("human")) = NumFlows
    /\ \A n \in Rows("human") : messages[n].content = HelloText

----------------------------------------------------------------------------
(* Requests whose messages array holds up to two elements: user messages    *)
(* with a text, with tool results only, with noise, an assistant message,   *)
(* and elements of another shape.  Each flow has one request event.         *)

\* {"role": role, "content": content}
Message(role, content) == Obj([role |-> Str(role), content |-> content])

MessageElements ==
    { Message("user", Text(HelloText)),
      Message("user", List(<<TextBlock(ReplyText)>>)),
      Message("user", List(<<Obj([type |-> Str("tool_result")])>>)),
      Message("user", Text(EchoText)),
      Message("user", Text(NoiseBlock)),
      Message("assistant", Text(ReplyText)),
      Message("user", List(<<Obj([type |-> Str("text"), text |-> Null])>>)),
      Str("junk") }

\* a user message with a text, alone or followed by any element, and the
\* arrays of one element or none
MessageArrays ==
    {<<>>} \cup {<<e>> : e \in MessageElements}
           \cup {<<Message("user", Text(HelloText)), e>> : e \in MessageElements}
           \cup {<<Message("user", List(<<TextBlock(ReplyText)>>)), e>> : e \in MessageElements}

ScanRequests ==
    { Request(TRUE, Str("c1"),
              JsonDoc(Obj([model |-> Str("claude"), messages |-> List(msgs),
                           stream |-> Bool(FALSE)]))) : msgs \in MessageArrays }

\* the request event of a flow that had none yet
ScanRequest(f, req) == flow_request[f] = NoRequest /\ RequestEvent(f, req)

ScanNext == \E f \in Flows, req \in ScanRequests : ScanRequest(f, req)

SpecScan == Init /\ [][ScanNext]_vars

\* the message has text content: a string, or a list with a text-typed block
HasTextContent(msg) ==
    LET c == Get(msg, "content", Text(<<>>))
    IN  \/ c.j = "text"
        \/ c.j = "list" /\ \E b \in 1..Len(c.v) : IsTextBlock(c.v[b])

\* the strings of the text-typed blocks among the first n elements, joined
\* in sequence order
RECURSIVE StringsOf(_, _)
StringsOf(blocks, n) ==
    IF n = 0 THEN <<>>
    ELSE StringsOf(blocks, n - 1)
             \o (IF IsTextBlock(blocks[n]) /\ ~HasNoStringText(blocks[n])
                 THEN TextOfBlock(blocks[n]) ELSE <<>>)

\* the text of the message after the noise filter, trimmed
StrippedText(msg) ==
    LET c == Get(msg, "content", Text(<<>>))
    IN  IF c.j = "text" THEN strip(_strip_noise_tags(c.v))
        ELSE IF c.j = "list" THEN strip(_strip_noise_tags(StringsOf(c.v, Len(c.v))))
        ELSE <<>>

\* a user message with text content whose stripped, trimmed text is neither
\* empty nor noise
QualifiesAsHuman(msg) ==
    /\ IsDict(msg)
    /\ StrEq(Get(msg, "role", Null), "user")
    /\ HasTextContent(msg)
    /\ StrippedText(msg) # <<>>
    /\ ~_is_system_noise(StrippedText(msg))

\* the indexes of the qualifying messages
Qualifying(msgs) == {n \in 1..Len(msgs) : QualifiesAsHuman(msgs[n])}

\* the index of the last qualifying message
LastQualifying(msgs) == CHOOSE n \in Qualifying(msgs) : \A m \in Qualifying(msgs) : m <= n

\* the messages array of the request
MessagesOf(req) == Get(req.content.val, "messages", List(<<>>)).v

\* C31: the request hook records at most one human message per request.
\* With PostgreSQL reachable it inserts the last message of the array that
\* is a user message with text content whose stripped, trimmed text is
\* non-empty and not noise, and nothing when no message qualifies; the
\* pending entry is registered in either case.
C31_LastQualifyingUserMessage ==
    [][\A f \in Flows :
          Ran("request", f)
              => LET msgs == MessagesOf(flow_request'[f])
                     found == Qualifying(msgs)
                 IN  /\ f \in DOMAIN _pending_requests'
                     /\ _pending_requests'[f].messages = List(msgs)
                     /\ Len(messages') <= Len(messages) + 1
                     /\ db_up /\ found # {}
                            => /\ RowAppended
                               /\ Last(messages').role = "human"
                               /\ Last(messages').content = StrippedText(msgs[LastQualifying(msgs)])
                     /\ found = {} => messages' = messages]_vars

\* no element of the array makes the loop raise: every element is an object
\* and no text-typed block has a text that is no string
ScanCompletes(msgs) ==
    \A n \in 1..Len(msgs) :
        /\ IsDict(msgs[n])
        /\ LET c == Get(msgs[n], "content", Text(<<>>))
           IN  c.j = "list" => ~JoinRaises(BlockTexts(c.v))

----------------------------------------------------------------------------
(* Claims about the entries of the Redis stream (checked under SpecAddons). *)

\* the entry ids of the request entries of flow f
RequestEntries(f) ==
    {n \in 1..Len(redis_stream) :
        redis_stream[n].type = "request" /\ redis_stream[n].flow_id = f}

\* the entry ids of the response entries
ResponseEntries == {n \in 1..Len(redis_stream) : redis_stream[n].type = "response"}

\* C32: in the stream every response entry comes after the request entry
\* of its flow and carries that entry's id as request_entry_id; it carries
\* "unknown" exactly when no request entry of its flow was recorded before
\* it, and never the id of another flow's request entry, whatever the order
\* of the events of the flows.
C32_ResponseEntryNamesItsRequest ==
    \A n \in ResponseEntries :
        LET f == redis_stream[n].flow_id
            id == redis_stream[n].request_entry_id
        IN  /\ id = 0 <=> {m \in RequestEntries(f) : m < n} = {}
            /\ id # 0 => id \in RequestEntries(f) /\ id < n

\* the requests of two flows were recorded one after the other and then the
\* response of the first: its entry names the first request entry, not the
\* latest one
C32_Witness ==
    \E n \in ResponseEntries :
        /\ redis_stream[n].request_entry_id \in RequestEntries(redis_stream[n].flow_id)
        /\ \E g \in Flows \ {redis_stream[n].flow_id} :
               \E m \in RequestEntries(g) : redis_stream[n].request_entry_id < m /\ m < n

============================================================================
